---- MODULE Spec2Model ----
(***************************************************************************)
(* A model of I2cCharDisplay.py: the driver for HD44780 character LCDs     *)
(* behind a PCA8574 I2C expander ("LCD", the nibble family) and for US2066 *)
(* character OLEDs ("OLED", the byte-mode family).                         *)
(*                                                                         *)
(* A method of the class is an operator from the object (a record of its   *)
(* fields) and the arguments to a result: the object after the call, the   *)
(* calls the method makes on the I2C bus object and on sleep(), in order,  *)
(* and the exception it raises, if any.  An action of the specification    *)
(* is one call of a public method; it runs the method's bus calls against  *)
(* a bus on which chosen writes fail.                                      *)
(***************************************************************************)
EXTENDS Integers, Sequences, FiniteSets, TLC

(***************************************************************************)
(* Python's integer operators.  Python integers are unbounded and the      *)
(* bitwise operators act on their two's complement form, so that           *)
(* x & ~m clears the bits of m in x.                                       *)
(***************************************************************************)
RECURSIVE BitAnd(_, _)
BitAnd(a, b) ==
    IF a = 0 \/ b = 0 THEN 0
    ELSE IF a = -1 THEN b
    ELSE IF b = -1 THEN a
    ELSE (a % 2) * (b % 2) + 2 * BitAnd(a \div 2, b \div 2)

RECURSIVE BitOr(_, _)
BitOr(a, b) ==
    IF a = 0 THEN b
    ELSE IF b = 0 THEN a
    ELSE IF a = -1 \/ b = -1 THEN -1
    ELSE (IF a % 2 = 1 \/ b % 2 = 1 THEN 1 ELSE 0) + 2 * BitOr(a \div 2, b \div 2)

BitNot(a) == -a - 1

RECURSIVE ShiftLeft(_, _)
ShiftLeft(a, n) == IF n = 0 THEN a ELSE ShiftLeft(2 * a, n - 1)

(***************************************************************************)
(* The class constants.                                                    *)
(***************************************************************************)
LCD_TYPE == "LCD"
OLED_TYPE == "OLED"

OLED_COMMANDMODE == 128
OLED_DATAMODE == 64
OLED_SETBRIGHTNESSCOMMAND == 129
OLED_SETFADECOMMAND == 35
OLED_FADEOFF == 0
OLED_FADEON == 32
OLED_FADEBLINK == 48

LCD_BACKLIGHTON == 8
LCD_BACKLIGHTOFF == 0
LCD_ENABLEON == 4
LCD_ENABLEOFF == 0
LCD_READ == 2
LCD_WRITE == 0
LCD_DATA == 1
LCD_COMMAND == 0

LCD_CLEARDISPLAYCOMMAND == 1
LCD_RETURNHOMECOMMAND == 2
LCD_ENTRYMODECOMMAND == 4
LCD_DISPLAYCONTROLCOMMAND == 8
LCD_SHIFTCOMMAND == 16
LCD_FUNCTIONSETCOMMAND == 32
LCD_SETCGRAMADDRCOMMAND == 64
LCD_SETDDRAMADDRCOMMAND == 128

LCD_DISPLAYLEFTTORIGHT == 2
LCD_DISPLAYRIGHTTOLEFT == 0
LCD_DISPLAYSHIFTON == 1
LCD_DISPLAYSHIFTOFF == 0

LCD_DISPLAYON == 4
LCD_DISPLAYOFF == 0
LCD_CURSORON == 2
LCD_CURSOROFF == 0
LCD_CURSORBLINKON == 1
LCD_CURSORBLINKOFF == 0

LCD_8BITMODE == 16
LCD_4BITMODE == 0
LCD_2LINES == 8
LCD_1LINES == 0
LCD_5x10DOTS == 4
LCD_5x8DOTS == 0

LCD_DISPLAYSHIFT == 8
LCD_CURSORSHIFT == 0
LCD_SHIFTRIGHT == 4
LCD_SHIFTLEFT == 0

(***************************************************************************)
(* The calls a method makes on its collaborators.  i2c.write_byte and      *)
(* i2c.write_byte_data are the two writes of the module-level SMBus        *)
(* object; try is TRUE when the call stands in a try: ... except: pass.    *)
(* sleep(t) is recorded in microseconds.                                   *)
(***************************************************************************)
write_byte(addr, value, try) ==
    [call |-> "write_byte", addr |-> addr, value |-> value, try |-> try]

write_byte_data(addr, cmd, value, try) ==
    [call |-> "write_byte_data", addr |-> addr, cmd |-> cmd, value |-> value,
     try |-> try]

sleep(us) == [call |-> "sleep", us |-> us]

(***************************************************************************)
(* The private methods: the two encoders.                                  *)
(***************************************************************************)
(* sendLcdByte with the write outside the try: a failed write raises.      *)
sendLcdByte_NoTry(self, value) == << write_byte(self.i2cAddress, value, FALSE) >>

(* sendLcdByte writing to the default address of the demo instead of the   *)
(* object's address.                                                       *)
sendLcdByte_DefaultAddress(self, value) == << write_byte(39, value, TRUE) >>

sendLcdByte(self, value) == << write_byte(self.i2cAddress, value, TRUE) >>

(* sendLcdCommand without the write that takes the enable line low again.  *)
sendLcdCommand_EnableLeftHigh(self, value) ==
    LET lowNibble == BitOr(BitOr(BitAnd(value, 240), self.lcdBacklightControl),
                           LCD_COMMAND)
        highNibble == BitOr(BitOr(BitAnd(ShiftLeft(value, 4), 240),
                                  self.lcdBacklightControl), LCD_COMMAND)
    IN  sendLcdByte(self, lowNibble)
        \o sendLcdByte(self, BitOr(lowNibble, LCD_ENABLEON))
        \o sendLcdByte(self, highNibble)
        \o sendLcdByte(self, BitOr(highNibble, LCD_ENABLEON))

(* sendLcdCommand without the & 0xf0 after the shift of the second         *)
(* nibble.                                                                 *)
sendLcdCommand_NoMask(self, value) ==
    LET lowNibble == BitOr(BitOr(BitAnd(value, 240), self.lcdBacklightControl),
                           LCD_COMMAND)
        highNibble == BitOr(BitOr(ShiftLeft(value, 4), self.lcdBacklightControl),
                            LCD_COMMAND)
    IN  sendLcdByte(self, lowNibble)
        \o sendLcdByte(self, BitOr(lowNibble, LCD_ENABLEON))
        \o sendLcdByte(self, lowNibble)
        \o sendLcdByte(self, highNibble)
        \o sendLcdByte(self, BitOr(highNibble, LCD_ENABLEON))
        \o sendLcdByte(self, highNibble)

sendLcdCommand(self, value) ==
    LET lowNibble == BitOr(BitOr(BitAnd(value, 240), self.lcdBacklightControl),
                           LCD_COMMAND)
        highNibble == BitOr(BitOr(BitAnd(ShiftLeft(value, 4), 240),
                                  self.lcdBacklightControl), LCD_COMMAND)
    IN  sendLcdByte(self, lowNibble)
        \o sendLcdByte(self, BitOr(lowNibble, LCD_ENABLEON))
        \o sendLcdByte(self, lowNibble)
        \o sendLcdByte(self, highNibble)
        \o sendLcdByte(self, BitOr(highNibble, LCD_ENABLEON))
        \o sendLcdByte(self, highNibble)

(* sendLcdData sending bits 3..0 of the value before bits 7..4.            *)
sendLcdData_LowerNibbleFirst(self, value) ==
    LET lowNibble == BitOr(BitOr(BitAnd(value, 240), self.lcdBacklightControl),
                           LCD_DATA)
        highNibble == BitOr(BitOr(BitAnd(ShiftLeft(value, 4), 240),
                                  self.lcdBacklightControl), LCD_DATA)
    IN  sendLcdByte(self, highNibble)
        \o sendLcdByte(self, BitOr(highNibble, LCD_ENABLEON))
        \o sendLcdByte(self, highNibble)
        \o sendLcdByte(self, lowNibble)
        \o sendLcdByte(self, BitOr(lowNibble, LCD_ENABLEON))
        \o sendLcdByte(self, lowNibble)

(* sendLcdData leaving the backlight bit out of the bytes it writes.       *)
sendLcdData_NoBacklightBit(self, value) ==
    LET lowNibble == BitOr(BitAnd(value, 240), LCD_DATA)
        highNibble == BitOr(BitAnd(ShiftLeft(value, 4), 240), LCD_DATA)
    IN  sendLcdByte(self, lowNibble)
        \o sendLcdByte(self, BitOr(lowNibble, LCD_ENABLEON))
        \o sendLcdByte(self, lowNibble)
        \o sendLcdByte(self, highNibble)
        \o sendLcdByte(self, BitOr(highNibble, LCD_ENABLEON))
        \o sendLcdByte(self, highNibble)

(* sendLcdData without the backlight bit in the second nibble.             *)
sendLcdData_SecondNibbleNoBacklight(self, value) ==
    LET lowNibble == BitOr(BitOr(BitAnd(value, 240), self.lcdBacklightControl),
                           LCD_DATA)
        highNibble == BitOr(BitAnd(ShiftLeft(value, 4), 240), LCD_DATA)
    IN  sendLcdByte(self, lowNibble)
        \o sendLcdByte(self, BitOr(lowNibble, LCD_ENABLEON))
        \o sendLcdByte(self, lowNibble)
        \o sendLcdByte(self, highNibble)
        \o sendLcdByte(self, BitOr(highNibble, LCD_ENABLEON))
        \o sendLcdByte(self, highNibble)

(* sendLcdData with the read/write bit set in the bytes it writes.         *)
sendLcdData_ReadBit(self, value) ==
    LET lowNibble == BitOr(BitOr(BitOr(BitAnd(value, 240),
                                       self.lcdBacklightControl), LCD_DATA),
                           LCD_READ)
        highNibble == BitOr(BitOr(BitOr(BitAnd(ShiftLeft(value, 4), 240),
                                        self.lcdBacklightControl), LCD_DATA),
                            LCD_READ)
    IN  sendLcdByte(self, lowNibble)
        \o sendLcdByte(self, BitOr(lowNibble, LCD_ENABLEON))
        \o sendLcdByte(self, lowNibble)
        \o sendLcdByte(self, highNibble)
        \o sendLcdByte(self, BitOr(highNibble, LCD_ENABLEON))
        \o sendLcdByte(self, highNibble)

sendLcdData(self, value) ==
    LET lowNibble == BitOr(BitOr(BitAnd(value, 240), self.lcdBacklightControl),
                           LCD_DATA)
        highNibble == BitOr(BitOr(BitAnd(ShiftLeft(value, 4), 240),
                                  self.lcdBacklightControl), LCD_DATA)
    IN  sendLcdByte(self, lowNibble)
        \o sendLcdByte(self, BitOr(lowNibble, LCD_ENABLEON))
        \o sendLcdByte(self, lowNibble)
        \o sendLcdByte(self, highNibble)
        \o sendLcdByte(self, BitOr(highNibble, LCD_ENABLEON))
        \o sendLcdByte(self, highNibble)

(* sendOledCommand without the wait after the write.                       *)
sendOledCommand_NoWait(self, value) ==
    << write_byte_data(self.i2cAddress, OLED_COMMANDMODE, value, TRUE) >>

sendOledCommand(self, value) ==
    << write_byte_data(self.i2cAddress, OLED_COMMANDMODE, value, TRUE),
       sleep(1000) >>

(* sendOledData with the write outside the try: a failed write raises.     *)
sendOledData_NoTry(self, value) ==
    << write_byte_data(self.i2cAddress, OLED_DATAMODE, value, FALSE),
       sleep(1000) >>

sendOledData(self, value) ==
    << write_byte_data(self.i2cAddress, OLED_DATAMODE, value, TRUE),
       sleep(1000) >>

sendCommand(self, value) ==
    IF self.displayType = LCD_TYPE THEN sendLcdCommand(self, value)
    ELSE IF self.displayType = OLED_TYPE THEN sendOledCommand(self, value)
    ELSE << >>

sendData(self, value) ==
    IF self.displayType = LCD_TYPE THEN sendLcdData(self, value)
    ELSE IF self.displayType = OLED_TYPE THEN sendOledData(self, value)
    ELSE << >>

(***************************************************************************)
(* The result of a call of a method: the object after the call, the calls  *)
(* it makes on the bus and on sleep(), and the exception it raises.        *)
(***************************************************************************)
NoException == "none"

Result(self, out, exc) == [self |-> self, out |-> out, exc |-> exc]

(***************************************************************************)
(* Python's list indexing: an index in -len .. -1 counts from the end and  *)
(* an index outside -len .. len-1 raises IndexError.                       *)
(***************************************************************************)
IndexInRange(list, i) == -Len(list) <= i /\ i < Len(list)

ListItem(list, i) == IF i >= 0 THEN list[i + 1] ELSE list[Len(list) + i + 1]

(***************************************************************************)
(* Python's ord() on the characters the model writes.                      *)
(***************************************************************************)
Chars == {"H", "I", "L", "O", "~"}

ord(ch) ==
    CASE ch = "H" -> 72
      [] ch = "I" -> 73
      [] ch = "L" -> 76
      [] ch = "O" -> 79
      [] ch = "~" -> 126

(***************************************************************************)
(* The public methods.                                                     *)
(***************************************************************************)
write(self, value) == Result(self, sendData(self, ord(value)), NoException)

RECURSIVE writeStringFrom(_, _, _)
writeStringFrom(self, value, i) ==
    IF i > Len(value) THEN << >>
    ELSE write(self, value[i]).out \o writeStringFrom(self, value, i + 1)

(* writeString sending the characters last to first.                       *)
writeString_Reversed(self, value) ==
    Result(self,
           writeStringFrom(self, [i \in 1 .. Len(value) |->
                                      value[Len(value) + 1 - i]], 1),
           NoException)

writeString(self, value) ==
    Result(self, writeStringFrom(self, value, 1), NoException)

(* clear without the wait after the command.                               *)
clear_NoWait(self) ==
    Result(self, sendCommand(self, LCD_CLEARDISPLAYCOMMAND), NoException)

clear(self) ==
    Result(self, sendCommand(self, LCD_CLEARDISPLAYCOMMAND) \o << sleep(2000) >>,
           NoException)

moveRowOffset2Rows == << 0, 64 >>
moveRowOffset4RowsLcd == << 0, 64, 20, 84 >>
moveRowOffset4RowsOled == << 0, 32, 64, 96 >>

(* cursorMove without the test that moves a row that is too large to the   *)
(* bottom row.                                                             *)
cursorMove_NoClamp(self, row, col) ==
    LET table == IF self.rows <= 2 THEN moveRowOffset2Rows
                 ELSE IF self.displayType = LCD_TYPE THEN moveRowOffset4RowsLcd
                 ELSE moveRowOffset4RowsOled
    IN  IF IndexInRange(table, row - 1)
        THEN Result(self,
                    sendCommand(self, BitOr(LCD_SETDDRAMADDRCOMMAND,
                                            col - 1 + ListItem(table, row - 1))),
                    NoException)
        ELSE Result(self, << >>, "IndexError")

cursorMove(self, row, col) ==
    LET r == IF row > self.rows THEN self.rows ELSE row
        table == IF self.rows <= 2 THEN moveRowOffset2Rows
                 ELSE IF self.displayType = LCD_TYPE THEN moveRowOffset4RowsLcd
                 ELSE moveRowOffset4RowsOled
    IN  IF IndexInRange(table, r - 1)
        THEN Result(self,
                    sendCommand(self, BitOr(LCD_SETDDRAMADDRCOMMAND,
                                            col - 1 + ListItem(table, r - 1))),
                    NoException)
        ELSE Result(self, << >>, "IndexError")

(* home as the native return-home command with its wait, the line the      *)
(* source keeps as a comment.                                              *)
home_ReturnHome(self) ==
    Result(self, sendCommand(self, LCD_RETURNHOMECOMMAND) \o << sleep(2000) >>,
           NoException)

home(self) == cursorMove(self, 1, 1)

(* The display-control register: read-modify-write of the shadow copy,     *)
(* then the whole register is sent.                                        *)
SendDisplayControl(self) ==
    Result(self,
           sendCommand(self, BitOr(LCD_DISPLAYCONTROLCOMMAND,
                                   self.lcdDisplayControlCommand)),
           NoException)

(* displayOff assigning LCD_DISPLAYOFF to the register instead of          *)
(* clearing the bit.                                                       *)
displayOff_Assign(self) ==
    SendDisplayControl([self EXCEPT !.lcdDisplayControlCommand = LCD_DISPLAYOFF])

(* displayOff sending the new register value without storing it.           *)
displayOff_NoStore(self) ==
    Result(self,
           sendCommand(self, BitOr(LCD_DISPLAYCONTROLCOMMAND,
                                   BitAnd(self.lcdDisplayControlCommand,
                                          BitNot(LCD_DISPLAYON)))),
           NoException)

displayOff(self) ==
    SendDisplayControl([self EXCEPT !.lcdDisplayControlCommand =
                            BitAnd(@, BitNot(LCD_DISPLAYON))])

(* displayOn flipping the bit instead of setting it.                       *)
displayOn_Flip(self) ==
    SendDisplayControl([self EXCEPT !.lcdDisplayControlCommand =
                            IF BitAnd(@, LCD_DISPLAYON) # 0
                            THEN @ - LCD_DISPLAYON ELSE @ + LCD_DISPLAYON])

displayOn(self) ==
    SendDisplayControl([self EXCEPT !.lcdDisplayControlCommand =
                            BitOr(@, LCD_DISPLAYON)])

cursorOff(self) ==
    SendDisplayControl([self EXCEPT !.lcdDisplayControlCommand =
                            BitAnd(@, BitNot(LCD_CURSORON))])

cursorOn(self) ==
    SendDisplayControl([self EXCEPT !.lcdDisplayControlCommand =
                            BitOr(@, LCD_CURSORON)])

(* cursorBlinkOff masking with the bit instead of its complement.          *)
cursorBlinkOff_NoComplement(self) ==
    SendDisplayControl([self EXCEPT !.lcdDisplayControlCommand =
                            BitAnd(@, LCD_CURSORBLINKON)])

cursorBlinkOff(self) ==
    SendDisplayControl([self EXCEPT !.lcdDisplayControlCommand =
                            BitAnd(@, BitNot(LCD_CURSORBLINKON))])

cursorBlinkOn(self) ==
    SendDisplayControl([self EXCEPT !.lcdDisplayControlCommand =
                            BitOr(@, LCD_CURSORBLINKON)])

displayShiftLeft(self) ==
    Result(self,
           sendCommand(self, BitOr(BitOr(LCD_SHIFTCOMMAND, LCD_DISPLAYSHIFT),
                                   LCD_SHIFTLEFT)),
           NoException)

(* displayShiftRight without the direction bit: it shifts left.            *)
displayShiftRight_NoDirection(self) ==
    Result(self,
           sendCommand(self, BitOr(LCD_SHIFTCOMMAND, LCD_DISPLAYSHIFT)),
           NoException)

displayShiftRight(self) ==
    Result(self,
           sendCommand(self, BitOr(BitOr(LCD_SHIFTCOMMAND, LCD_DISPLAYSHIFT),
                                   LCD_SHIFTRIGHT)),
           NoException)

cursorShiftLeft(self) ==
    Result(self,
           sendCommand(self, BitOr(BitOr(LCD_SHIFTCOMMAND, LCD_CURSORSHIFT),
                                   LCD_SHIFTLEFT)),
           NoException)

cursorShiftRight(self) ==
    Result(self,
           sendCommand(self, BitOr(BitOr(LCD_SHIFTCOMMAND, LCD_CURSORSHIFT),
                                   LCD_SHIFTRIGHT)),
           NoException)

(* The entry-mode register, handled the same way.                          *)
SendEntryMode(self) ==
    Result(self,
           sendCommand(self, BitOr(LCD_ENTRYMODECOMMAND,
                                   self.lcdEntryModeCommand)),
           NoException)

displayLeftToRight(self) ==
    SendEntryMode([self EXCEPT !.lcdEntryModeCommand =
                       BitOr(@, LCD_DISPLAYLEFTTORIGHT)])

displayRightToLeft(self) ==
    SendEntryMode([self EXCEPT !.lcdEntryModeCommand =
                       BitAnd(@, BitNot(LCD_DISPLAYLEFTTORIGHT))])

(* displayShiftOn sending the register before it is updated.               *)
displayShiftOn_SendsOld(self) ==
    Result([self EXCEPT !.lcdEntryModeCommand = BitOr(@, LCD_DISPLAYSHIFTON)],
           sendCommand(self, BitOr(LCD_ENTRYMODECOMMAND, self.lcdEntryModeCommand)),
           NoException)

displayShiftOn(self) ==
    SendEntryMode([self EXCEPT !.lcdEntryModeCommand =
                       BitOr(@, LCD_DISPLAYSHIFTON)])

displayShiftOff(self) ==
    SendEntryMode([self EXCEPT !.lcdEntryModeCommand =
                       BitAnd(@, BitNot(LCD_DISPLAYSHIFTON))])

(* for i in range(0, 7): self.sendData(characterMap[i])                    *)
RECURSIVE createCharacterRows(_, _, _, _)
createCharacterRows(self, characterMap, i, out) ==
    IF i >= 7 THEN Result(self, out, NoException)
    ELSE IF ~IndexInRange(characterMap, i) THEN Result(self, out, "IndexError")
    ELSE createCharacterRows(self, characterMap, i + 1,
                             out \o sendData(self, ListItem(characterMap, i)))

(* createCharacter without address &= 0x7.                                 *)
createCharacter_NoMask(self, address, characterMap) ==
    createCharacterRows(
        self, characterMap, 0,
        sendCommand(self, BitOr(LCD_SETCGRAMADDRCOMMAND, ShiftLeft(address, 3))))

createCharacter(self, address, characterMap) ==
    createCharacterRows(
        self, characterMap, 0,
        sendCommand(self, BitOr(LCD_SETCGRAMADDRCOMMAND,
                                ShiftLeft(BitAnd(address, 7), 3))))

backlightOff(self) ==
    LET s == [self EXCEPT !.lcdBacklightControl = LCD_BACKLIGHTOFF]
    IN  Result(s, sendLcdByte(s, s.lcdBacklightControl), NoException)

(* backlightOn that keeps the new bit for the next command and writes      *)
(* nothing itself.                                                         *)
backlightOn_NoWrite(self) ==
    Result([self EXCEPT !.lcdBacklightControl = LCD_BACKLIGHTON], << >>,
           NoException)

backlightOn(self) ==
    LET s == [self EXCEPT !.lcdBacklightControl = LCD_BACKLIGHTON]
    IN  Result(s, sendLcdByte(s, s.lcdBacklightControl), NoException)

(* setBrightness sending the value before the set-brightness command.      *)
setBrightness_ValueFirst(self, value) ==
    Result(self,
           sendCommand(self, 128) \o sendCommand(self, 42)
           \o sendCommand(self, 128) \o sendCommand(self, 121)
           \o sendCommand(self, value)
           \o sendCommand(self, OLED_SETBRIGHTNESSCOMMAND)
           \o sendCommand(self, 128) \o sendCommand(self, 120)
           \o sendCommand(self, 128) \o sendCommand(self, 40),
           NoException)

setBrightness(self, value) ==
    Result(self,
           sendCommand(self, 128) \o sendCommand(self, 42)
           \o sendCommand(self, 128) \o sendCommand(self, 121)
           \o sendCommand(self, OLED_SETBRIGHTNESSCOMMAND)
           \o sendCommand(self, value)
           \o sendCommand(self, 128) \o sendCommand(self, 120)
           \o sendCommand(self, 128) \o sendCommand(self, 40),
           NoException)

fadeOff(self) ==
    Result(self,
           sendCommand(self, 128) \o sendCommand(self, 42)
           \o sendCommand(self, 128) \o sendCommand(self, 121)
           \o sendCommand(self, OLED_SETFADECOMMAND)
           \o sendCommand(self, OLED_FADEOFF)
           \o sendCommand(self, 128) \o sendCommand(self, 120)
           \o sendCommand(self, 128) \o sendCommand(self, 40),
           NoException)

(* fadeOnce without the mask 0x0f on the rate.                             *)
fadeOnce_NoMask(self, value) ==
    Result(self,
           sendCommand(self, 128) \o sendCommand(self, 42)
           \o sendCommand(self, 128) \o sendCommand(self, 121)
           \o sendCommand(self, OLED_SETFADECOMMAND)
           \o sendCommand(self, BitOr(OLED_FADEON, value))
           \o sendCommand(self, 128) \o sendCommand(self, 120)
           \o sendCommand(self, 128) \o sendCommand(self, 40),
           NoException)

fadeOnce(self, value) ==
    Result(self,
           sendCommand(self, 128) \o sendCommand(self, 42)
           \o sendCommand(self, 128) \o sendCommand(self, 121)
           \o sendCommand(self, OLED_SETFADECOMMAND)
           \o sendCommand(self, BitOr(OLED_FADEON, BitAnd(15, value)))
           \o sendCommand(self, 128) \o sendCommand(self, 120)
           \o sendCommand(self, 128) \o sendCommand(self, 40),
           NoException)

fadeBlink(self, value) ==
    Result(self,
           sendCommand(self, 128) \o sendCommand(self, 42)
           \o sendCommand(self, 128) \o sendCommand(self, 121)
           \o sendCommand(self, OLED_SETFADECOMMAND)
           \o sendCommand(self, BitOr(OLED_FADEBLINK, BitAnd(15, value)))
           \o sendCommand(self, 128) \o sendCommand(self, 120)
           \o sendCommand(self, 128) \o sendCommand(self, 40),
           NoException)

(***************************************************************************)
(* The initialization sequences.                                           *)
(***************************************************************************)
RECURSIVE sendCommands(_, _, _)
sendCommands(self, values, i) ==
    IF i > Len(values) THEN << >>
    ELSE sendCommand(self, values[i]) \o sendCommands(self, values, i + 1)

(* The three register writes and the clear and home that end both          *)
(* sequences; functionSet is the value the sequence gives the register.    *)
(* BeginRegisters without the test of the number of rows: the function    *)
(* set is always that of one line.                                         *)
BeginRegisters_NoTwoLines(self, functionSet) ==
    LET s1 == [self EXCEPT !.lcdFunctionSetCommand = functionSet]
        s2 == [s1 EXCEPT !.lcdDisplayControlCommand =
                   BitOr(BitOr(LCD_DISPLAYON, LCD_CURSOROFF), LCD_CURSORBLINKOFF)]
        s3 == [s2 EXCEPT !.lcdEntryModeCommand =
                   BitOr(LCD_DISPLAYLEFTTORIGHT, LCD_DISPLAYSHIFTOFF)]
        c == clear(s3)
        h == home(c.self)
    IN  Result(h.self,
               sendCommand(s1, BitOr(LCD_FUNCTIONSETCOMMAND,
                                     s1.lcdFunctionSetCommand))
               \o sendCommand(s2, BitOr(LCD_DISPLAYCONTROLCOMMAND,
                                        s2.lcdDisplayControlCommand))
               \o sendCommand(s3, BitOr(LCD_ENTRYMODECOMMAND,
                                        s3.lcdEntryModeCommand))
               \o c.out \o h.out,
               IF c.exc # NoException THEN c.exc ELSE h.exc)

(* BeginRegisters sending the entry mode before the display control.       *)
BeginRegisters_EntryModeFirst(self, functionSet) ==
    LET s1 == [self EXCEPT !.lcdFunctionSetCommand =
                   IF self.rows > 1 THEN BitOr(functionSet, LCD_2LINES)
                   ELSE functionSet]
        s2 == [s1 EXCEPT !.lcdEntryModeCommand =
                   BitOr(LCD_DISPLAYLEFTTORIGHT, LCD_DISPLAYSHIFTOFF)]
        s3 == [s2 EXCEPT !.lcdDisplayControlCommand =
                   BitOr(BitOr(LCD_DISPLAYON, LCD_CURSOROFF), LCD_CURSORBLINKOFF)]
        c == clear(s3)
        h == home(c.self)
    IN  Result(h.self,
               sendCommand(s1, BitOr(LCD_FUNCTIONSETCOMMAND,
                                     s1.lcdFunctionSetCommand))
               \o sendCommand(s2, BitOr(LCD_ENTRYMODECOMMAND,
                                        s2.lcdEntryModeCommand))
               \o sendCommand(s3, BitOr(LCD_DISPLAYCONTROLCOMMAND,
                                        s3.lcdDisplayControlCommand))
               \o c.out \o h.out,
               IF c.exc # NoException THEN c.exc ELSE h.exc)

BeginRegisters(self, functionSet) ==
    LET s1 == [self EXCEPT !.lcdFunctionSetCommand =
                   IF self.rows > 1 THEN BitOr(functionSet, LCD_2LINES)
                   ELSE functionSet]
        s2 == [s1 EXCEPT !.lcdDisplayControlCommand =
                   BitOr(BitOr(LCD_DISPLAYON, LCD_CURSOROFF), LCD_CURSORBLINKOFF)]
        s3 == [s2 EXCEPT !.lcdEntryModeCommand =
                   BitOr(LCD_DISPLAYLEFTTORIGHT, LCD_DISPLAYSHIFTOFF)]
        c == clear(s3)
        h == home(c.self)
    IN  Result(h.self,
               sendCommand(s1, BitOr(LCD_FUNCTIONSETCOMMAND,
                                     s1.lcdFunctionSetCommand))
               \o sendCommand(s2, BitOr(LCD_DISPLAYCONTROLCOMMAND,
                                        s2.lcdDisplayControlCommand))
               \o sendCommand(s3, BitOr(LCD_ENTRYMODECOMMAND,
                                        s3.lcdEntryModeCommand))
               \o c.out \o h.out,
               IF c.exc # NoException THEN c.exc ELSE h.exc)

oledBegin(self) ==
    LET regs == BeginRegisters(self, BitOr(LCD_1LINES, LCD_5x8DOTS))
    IN  Result(regs.self,
               << sleep(100000) >>
               \o sendCommand(self, 42)
               \o sendCommand(self, 113) \o sendData(self, 92)
               \o sendCommands(self, << 40, 8, 42, 121, 213, 112, 120 >>, 1)
               \o (IF self.rows > 2 THEN sendCommand(self, 9)
                   ELSE sendCommand(self, 8))
               \o sendCommand(self, 6)
               \o sendCommand(self, 114) \o sendData(self, 0)
               \o sendCommands(self, << 121, 218, 16, 220, 0, 129, 255, 217, 241,
                                        219, 64, 120, 40, 1, 128 >>, 1)
               \o << sleep(100000) >>
               \o regs.out,
               regs.exc)

(* One pulse of the 8-bit interface: data, data with enable, data.         *)
(* lcdBeginPulse with the 1 ms wait of the last pulse after every pulse.    *)
lcdBeginPulse_ShortWait(self, nibble, wait) ==
    LET data == BitOr(nibble, self.lcdBacklightControl)
    IN  sendLcdByte(self, data)
        \o sendLcdByte(self, BitOr(data, LCD_ENABLEON))
        \o << sleep(1000) >>
        \o sendLcdByte(self, BitOr(data, LCD_ENABLEOFF))
        \o << sleep(1000) >>

lcdBeginPulse(self, nibble, wait) ==
    LET data == BitOr(nibble, self.lcdBacklightControl)
    IN  sendLcdByte(self, data)
        \o sendLcdByte(self, BitOr(data, LCD_ENABLEON))
        \o << sleep(1000) >>
        \o sendLcdByte(self, BitOr(data, LCD_ENABLEOFF))
        \o << sleep(wait) >>

lcdBegin(self) ==
    LET regs == BeginRegisters(self, BitOr(BitOr(LCD_4BITMODE, LCD_1LINES),
                                           LCD_5x8DOTS))
    IN  Result(regs.self,
               << sleep(100000) >>
               \o sendLcdByte(self, self.lcdBacklightControl)
               \o << sleep(1000000) >>
               \o lcdBeginPulse(self, 48, 4300)
               \o lcdBeginPulse(self, 48, 4300)
               \o lcdBeginPulse(self, 48, 4300)
               \o lcdBeginPulse(self, 32, 1000)
               \o regs.out,
               regs.exc)

(* __init__                                                                *)
I2cCharDisplay(displayType, i2cAddress, rows) ==
    LET self == [displayType |-> displayType,
                 i2cAddress |-> i2cAddress,
                 rows |-> rows,
                 lcdBacklightControl |-> LCD_BACKLIGHTON,
                 lcdEntryModeCommand |-> 0,
                 lcdDisplayControlCommand |-> 0,
                 lcdFunctionSetCommand |-> 0]
    IN  IF displayType = LCD_TYPE THEN lcdBegin(self)
        ELSE IF displayType = OLED_TYPE THEN oledBegin(self)
        ELSE Result(self, << >>, NoException)

(***************************************************************************)
(* The bus.  A script of calls is run in order; the calls whose position   *)
(* in the script is in fault raise when they are writes (the device does   *)
(* not acknowledge).  An exception raised inside a try with except: pass   *)
(* is dropped and the script goes on; any other ends the script.  The      *)
(* trace keeps every call that was made, a write with its outcome.         *)
(***************************************************************************)
IsWrite(c) == c.call \in {"write_byte", "write_byte_data"}

Event(c, ok) ==
    IF c.call = "write_byte"
    THEN [call |-> c.call, addr |-> c.addr, value |-> c.value, ok |-> ok]
    ELSE IF c.call = "write_byte_data"
    THEN [call |-> c.call, addr |-> c.addr, cmd |-> c.cmd, value |-> c.value,
          ok |-> ok]
    ELSE c

Run(script, fault) ==
    LET Raises(i) == i \in fault /\ IsWrite(script[i])
        uncaught == { i \in 1 .. Len(script) : Raises(i) /\ ~script[i].try }
        last == IF uncaught = {} THEN Len(script)
                ELSE CHOOSE i \in uncaught : \A j \in uncaught : i <= j
    IN  [trace |-> [i \in 1 .. last |-> Event(script[i], ~Raises(i))],
         exc |-> IF uncaught = {} THEN NoException ELSE "IOError"]

(***************************************************************************)
(* The state: one display object and the record of the last call made on   *)
(* it.                                                                     *)
(*   display   the object's fields (NoDisplay before construction)         *)
(*   before    the object's fields when the last call started              *)
(*   lastCall  the method last called and its arguments                    *)
(*   bus       the calls the last call made on the bus and on sleep()      *)
(*   raised    the exception the last call raised                          *)
(* and, kept by the specification Session only, the history of the object: *)
(*   calls     the calls made on the object since its construction         *)
(*   log       the calls made on the bus and on sleep() since then         *)
(* and, kept by the specification Threaded only, two threads that call     *)
(* methods on objects sharing the module-level bus handle i2c:             *)
(*   handles     the objects the threads call methods on                   *)
(*   thread      each thread's position in the method it has called        *)
(*   wire        the writes made on the bus, in order, each with the       *)
(*               thread that made it (0 is the constructing thread)        *)
(*   overlapped  whether a method was ever called while another ran        *)
(***************************************************************************)
VARIABLES display, before, lastCall, bus, raised, calls, log,
          handles, thread, wire, overlapped

vars == << display, before, lastCall, bus, raised, calls, log,
           handles, thread, wire, overlapped >>

threadVars == << handles, thread, wire, overlapped >>

NoDisplay ==
    [displayType |-> "", i2cAddress |-> 0, rows |-> 0,
     lcdBacklightControl |-> 0, lcdEntryModeCommand |-> 0,
     lcdDisplayControlCommand |-> 0, lcdFunctionSetCommand |-> 0]

NoCall == [name |-> "", args |-> << >>, text |-> << >>]

(* No call is recorded: the next call can be made.                         *)
Idle == lastCall = NoCall

(* The inputs of the calls.  The addresses and the seven-row glyph bell    *)
(* are the demo program's; box is a glyph of eight rows.                   *)
MaxCol == 2
MaxLen == 2
RowUnder == 3
RowOver == 1
FaultWindow == 1

DisplayTypes == {LCD_TYPE, OLED_TYPE}
LCDADDRESS == 39
OLEDADDRESS == 60
Addresses(displayType) ==
    IF displayType = LCD_TYPE THEN {LCDADDRESS} ELSE {OLEDADDRESS}
RowCounts == 1 .. 4
CursorRows == (1 - RowUnder) .. (4 + RowOver)
CursorCols == 1 .. MaxCol
WriteChars == {"H", "~"}
Words == { << "H", "I" >>, << "L", "O", "~" >> }
Strings ==
    { SubSeq(w, 1, IF n < Len(w) THEN n ELSE Len(w)) : w \in Words, n \in 0 .. MaxLen }
Brightness == {0, 128, 165}
FadeRates == {0, 15, 90}
CharacterAddresses == {0, 3, 11, -1}
bell == << 4, 14, 14, 14, 31, 0, 4 >>
box == << 31, 17, 17, 17, 17, 17, 17, 31 >>
CharacterMaps == {bell, box}

(* The calls that may fail during one call of a method: none, all of them  *)
(* (no device at the address), or any of the first FaultWindow.            *)
Faults(script) ==
    (SUBSET (1 .. FaultWindow)) \cup { 1 .. Len(script) }

Call(name, args, text, r) ==
    /\ Idle
    /\ \E fault \in Faults(r.out) :
           LET run == Run(r.out, fault) IN
           /\ display' = r.self
           /\ before' = display
           /\ lastCall' = [name |-> name, args |-> args, text |-> text]
           /\ bus' = run.trace
           /\ raised' = IF run.exc # NoException THEN run.exc ELSE r.exc
    /\ UNCHANGED << calls, log >>
    /\ UNCHANGED threadVars

Init ==
    /\ display = NoDisplay
    /\ before = NoDisplay
    /\ lastCall = NoCall
    /\ bus = << >>
    /\ raised = NoException
    /\ calls = << >>
    /\ log = << >>
    /\ handles = << >>
    /\ thread = << >>
    /\ wire = << >>
    /\ overlapped = FALSE

Constructed == display # NoDisplay

Construct ==
    /\ ~Constructed
    /\ \E t \in DisplayTypes, n \in RowCounts :
           \E a \in Addresses(t) :
               Call("I2cCharDisplay", << a, n >>, << t >>,
                    I2cCharDisplay(t, a, n))

Write ==
    /\ Constructed
    /\ \E ch \in WriteChars : Call("write", << >>, << ch >>, write(display, ch))

WriteString ==
    /\ Constructed
    /\ \E s \in Strings : Call("writeString", << >>, s, writeString(display, s))

Clear == Constructed /\ Call("clear", << >>, << >>, clear(display))

Home == Constructed /\ Call("home", << >>, << >>, home(display))

CursorMove ==
    /\ Constructed
    /\ \E row \in CursorRows, col \in CursorCols :
           Call("cursorMove", << row, col >>, << >>, cursorMove(display, row, col))

DisplayOff == Constructed /\ Call("displayOff", << >>, << >>, displayOff(display))

DisplayOn == Constructed /\ Call("displayOn", << >>, << >>, displayOn(display))

CursorOff == Constructed /\ Call("cursorOff", << >>, << >>, cursorOff(display))

CursorOn == Constructed /\ Call("cursorOn", << >>, << >>, cursorOn(display))

CursorBlinkOff ==
    Constructed /\ Call("cursorBlinkOff", << >>, << >>, cursorBlinkOff(display))

CursorBlinkOn ==
    Constructed /\ Call("cursorBlinkOn", << >>, << >>, cursorBlinkOn(display))

DisplayShiftLeft ==
    Constructed /\ Call("displayShiftLeft", << >>, << >>, displayShiftLeft(display))

DisplayShiftRight ==
    Constructed /\ Call("displayShiftRight", << >>, << >>, displayShiftRight(display))

CursorShiftLeft ==
    Constructed /\ Call("cursorShiftLeft", << >>, << >>, cursorShiftLeft(display))

CursorShiftRight ==
    Constructed /\ Call("cursorShiftRight", << >>, << >>, cursorShiftRight(display))

DisplayLeftToRight ==
    Constructed /\ Call("displayLeftToRight", << >>, << >>, displayLeftToRight(display))

DisplayRightToLeft ==
    Constructed /\ Call("displayRightToLeft", << >>, << >>, displayRightToLeft(display))

DisplayShiftOn ==
    Constructed /\ Call("displayShiftOn", << >>, << >>, displayShiftOn(display))

DisplayShiftOff ==
    Constructed /\ Call("displayShiftOff", << >>, << >>, displayShiftOff(display))

CreateCharacter ==
    /\ Constructed
    /\ \E address \in CharacterAddresses, m \in CharacterMaps :
           Call("createCharacter", << address >> \o m, << >>,
                createCharacter(display, address, m))

BacklightOff ==
    Constructed /\ Call("backlightOff", << >>, << >>, backlightOff(display))

BacklightOn ==
    Constructed /\ Call("backlightOn", << >>, << >>, backlightOn(display))

SetBrightness ==
    /\ Constructed
    /\ \E value \in Brightness :
           Call("setBrightness", << value >>, << >>, setBrightness(display, value))

FadeOff == Constructed /\ Call("fadeOff", << >>, << >>, fadeOff(display))

FadeOnce ==
    /\ Constructed
    /\ \E value \in FadeRates :
           Call("fadeOnce", << value >>, << >>, fadeOnce(display, value))

FadeBlink ==
    /\ Constructed
    /\ \E value \in FadeRates :
           Call("fadeBlink", << value >>, << >>, fadeBlink(display, value))

(* The caller takes the result of the call; the record of the call is      *)
(* dropped and the object is ready for the next call.                      *)
Return ==
    /\ ~Idle
    /\ lastCall' = NoCall
    /\ before' = display
    /\ bus' = << >>
    /\ raised' = NoException
    /\ UNCHANGED << display, calls, log >>
    /\ UNCHANGED threadVars

Next ==
    \/ Construct
    \/ Write
    \/ WriteString
    \/ Clear
    \/ Home
    \/ CursorMove
    \/ DisplayOff
    \/ DisplayOn
    \/ CursorOff
    \/ CursorOn
    \/ CursorBlinkOff
    \/ CursorBlinkOn
    \/ DisplayShiftLeft
    \/ DisplayShiftRight
    \/ CursorShiftLeft
    \/ CursorShiftRight
    \/ DisplayLeftToRight
    \/ DisplayRightToLeft
    \/ DisplayShiftOn
    \/ DisplayShiftOff
    \/ CreateCharacter
    \/ BacklightOff
    \/ BacklightOn
    \/ SetBrightness
    \/ FadeOff
    \/ FadeOnce
    \/ FadeBlink
    \/ Return

Spec == Init /\ [][Next]_vars

(***************************************************************************)
(* The same, with the constructor also called with a displayType that is   *)
(* neither LCD_TYPE nor OLED_TYPE.                                         *)
(***************************************************************************)
InvalidTypes == {"lcd", "VFD"}

ConstructInvalid ==
    /\ ~Constructed
    /\ \E t \in InvalidTypes, n \in RowCounts :
           Call("I2cCharDisplay", << LCDADDRESS, n >>, << t >>,
                I2cCharDisplay(t, LCDADDRESS, n))

AnySelectorNext ==
    \/ ConstructInvalid
    \/ Next

AnySelector == Init /\ [][AnySelectorNext]_vars

(***************************************************************************)
(* A session: the object is constructed and then up to MaxCalls calls of   *)
(* clear, writeString and cursorMove are made on it one after the other,   *)
(* as in the demo program's cursor move test, with a device that           *)
(* acknowledges every write.  Each call is made when the one before it     *)
(* has returned, and what it does on the bus and on sleep() is added to    *)
(* the log.                                                                *)
(***************************************************************************)
MaxCalls == 4

SessionWords == { << "H", "I" >>, << "L", "O" >> }
SessionRows == 1 .. 2

SessionCall(name, args, text, r) ==
    LET run == Run(r.out, {})
        call == [name |-> name, args |-> args, text |-> text]
    IN  /\ Constructed
        /\ Len(calls) < MaxCalls
        /\ display' = r.self
        /\ before' = display
        /\ lastCall' = call
        /\ bus' = run.trace
        /\ raised' = IF run.exc # NoException THEN run.exc ELSE r.exc
        /\ calls' = Append(calls, call)
        /\ log' = log \o run.trace
        /\ UNCHANGED threadVars

SessionConstruct ==
    /\ ~Constructed
    /\ \E t \in DisplayTypes, n \in RowCounts :
           \E a \in Addresses(t) :
               LET r == I2cCharDisplay(t, a, n)
                   run == Run(r.out, {})
               IN  /\ display' = r.self
                   /\ before' = display
                   /\ lastCall' = [name |-> "I2cCharDisplay", args |-> << a, n >>,
                                   text |-> << t >>]
                   /\ bus' = run.trace
                   /\ raised' = IF run.exc # NoException THEN run.exc ELSE r.exc
                   /\ UNCHANGED << calls, log >>
                   /\ UNCHANGED threadVars

SessionClear == SessionCall("clear", << >>, << >>, clear(display))

SessionWriteString ==
    \E s \in SessionWords :
        SessionCall("writeString", << >>, s, writeString(display, s))

SessionCursorMove ==
    \E row \in SessionRows :
        SessionCall("cursorMove", << row, 1 >>, << >>, cursorMove(display, row, 1))

SessionNext ==
    \/ SessionConstruct
    \/ SessionClear
    \/ SessionWriteString
    \/ SessionCursorMove

Session == Init /\ [][SessionNext]_vars

(***************************************************************************)
(* Two threads.  Two nibble-family objects have been constructed on the    *)
(* bus by one thread; then each of two threads calls one method, write,    *)
(* backlightOff or backlightOn, on one of the objects, with no lock in     *)
(* the class or around i2c.  A thread takes one step at a time: a read of  *)
(* self._lcdBacklightControl, an assignment to it, or one i2c.write_byte.  *)
(*   write("H") is sendLcdData(0x48): the line that computes lowNibble     *)
(*   reads the backlight bit, the line that computes highNibble reads it   *)
(*   again, and six writes follow.                                         *)
(*   backlightOff / backlightOn assign the bit, read it back as the        *)
(*   argument of sendLcdByte, and write it.                                *)
(***************************************************************************)
Handles == {1, 2}
Threads == {1, 2}
ThreadOps == {"write", "backlightOff", "backlightOn"}

HandleAddress(h) == IF h = 1 THEN LCDADDRESS ELSE LCDADDRESS - 1

Ready == [pc |-> "ready", op |-> "", h |-> 0, todo |-> << >>]

Running(t) == thread[t].pc \notin {"ready", "done"}

(* The writes of a trace as they appear on the wire, made by thread t.     *)
OnWire(trace, t) ==
    LET w == SelectSeq(trace, IsWrite)
    IN  [i \in 1 .. Len(w) |->
            [thread |-> t, addr |-> w[i].addr, value |-> w[i].value]]

ThreadedInit ==
    /\ display = NoDisplay
    /\ before = NoDisplay
    /\ lastCall = NoCall
    /\ bus = << >>
    /\ raised = NoException
    /\ calls = << >>
    /\ log = << >>
    /\ handles = [h \in Handles |->
                      I2cCharDisplay(LCD_TYPE, HandleAddress(h), 2).self]
    /\ thread = [t \in Threads |-> Ready]
    /\ wire = OnWire(I2cCharDisplay(LCD_TYPE, HandleAddress(1), 2).out, 0)
                  \o OnWire(I2cCharDisplay(LCD_TYPE, HandleAddress(2), 2).out, 0)
    /\ overlapped = FALSE

objectVars == << display, before, lastCall, bus, raised, calls, log >>

(* The thread calls a method on one of the objects.                        *)
Begin(t) ==
    /\ thread[t].pc = "ready"
    /\ \E h \in Handles, op \in ThreadOps :
           thread' = [thread EXCEPT ![t] =
                          [pc |-> IF op = "write" THEN "low" ELSE "store",
                           op |-> op, h |-> h, todo |-> << >>]]
    /\ overlapped' = (overlapped \/ \E u \in Threads \ {t} : Running(u))
    /\ UNCHANGED << handles, wire >>
    /\ UNCHANGED objectVars

(* lowNibble = (value & 0xf0) | self._lcdBacklightControl | LCD_DATA       *)
LoadLow(t) ==
    /\ thread[t].pc = "low"
    /\ thread' = [thread EXCEPT
                      ![t].pc = "high",
                      ![t].todo = SubSeq(write(handles[thread[t].h], "H").out, 1, 3)]
    /\ UNCHANGED << handles, wire, overlapped >>
    /\ UNCHANGED objectVars

(* highNibble = ((value << 4) & 0xf0) | self._lcdBacklightControl | ...    *)
LoadHigh(t) ==
    /\ thread[t].pc = "high"
    /\ thread' = [thread EXCEPT
                      ![t].pc = "send",
                      ![t].todo = @ \o SubSeq(write(handles[thread[t].h], "H").out,
                                              4, 6)]
    /\ UNCHANGED << handles, wire, overlapped >>
    /\ UNCHANGED objectVars

(* self._lcdBacklightControl = LCD_BACKLIGHTOFF (or LCD_BACKLIGHTON)       *)
Store(t) ==
    /\ thread[t].pc = "store"
    /\ handles' = [handles EXCEPT ![thread[t].h] =
                        IF thread[t].op = "backlightOff" THEN backlightOff(@).self
                        ELSE backlightOn(@).self]
    /\ thread' = [thread EXCEPT ![t].pc = "load"]
    /\ UNCHANGED << wire, overlapped >>
    /\ UNCHANGED objectVars

(* the argument of self.sendLcdByte(self._lcdBacklightControl)             *)
Load(t) ==
    /\ thread[t].pc = "load"
    /\ thread' = [thread EXCEPT
                      ![t].pc = "send",
                      ![t].todo = sendLcdByte(handles[thread[t].h],
                                              handles[thread[t].h].lcdBacklightControl)]
    /\ UNCHANGED << handles, wire, overlapped >>
    /\ UNCHANGED objectVars

(* A bus with a lock: a thread does not write while another thread is      *)
(* between the first and the last write of a nibble.                       *)
Send_Locked(t) ==
    /\ thread[t].pc = "send"
    /\ \A u \in Threads \ {t} :
           ~(thread[u].pc = "send" /\ thread[u].op = "write"
               /\ Len(thread[u].todo) % 3 # 0)
    /\ wire' = wire \o OnWire(<< Head(thread[t].todo) >>, t)
    /\ thread' = [thread EXCEPT
                      ![t].pc = IF Len(thread[t].todo) = 1 THEN "done" ELSE "send",
                      ![t].todo = Tail(@)]
    /\ UNCHANGED << handles, overlapped >>
    /\ UNCHANGED objectVars

(* i2c.write_byte(self._i2cAddress, value) in sendLcdByte                  *)
Send(t) ==
    /\ thread[t].pc = "send"
    /\ wire' = wire \o OnWire(<< Head(thread[t].todo) >>, t)
    /\ thread' = [thread EXCEPT
                      ![t].pc = IF Len(thread[t].todo) = 1 THEN "done" ELSE "send",
                      ![t].todo = Tail(@)]
    /\ UNCHANGED << handles, overlapped >>
    /\ UNCHANGED objectVars

ThreadedNext ==
    \E t \in Threads :
        \/ Begin(t)
        \/ LoadLow(t)
        \/ LoadHigh(t)
        \/ Store(t)
        \/ Load(t)
        \/ Send(t)

Threaded == ThreadedInit /\ [][ThreadedNext]_vars

(***************************************************************************)
(* Every byte.  An object is constructed, its backlight bit is turned off  *)
(* or on, and sendCommand(value) and sendData(value) are called with each  *)
(* value of a byte.                                                        *)
(***************************************************************************)
ByteValues == 0 .. 255

SendCommand ==
    /\ Constructed
    /\ \E value \in ByteValues :
           Call("sendCommand", << value >>, << >>,
                Result(display, sendCommand(display, value), NoException))

SendData ==
    /\ Constructed
    /\ \E value \in ByteValues :
           Call("sendData", << value >>, << >>,
                Result(display, sendData(display, value), NoException))

EncodingNext ==
    \/ Construct
    \/ BacklightOff
    \/ BacklightOn
    \/ SendCommand
    \/ SendData
    \/ Return

Encoding == Init /\ [][EncodingNext]_vars

(***************************************************************************)
(* Two objects on one bus, as in the demo: each is constructed once, with  *)
(* its own address, and public methods are then called on either of them,  *)
(* one call at a time.  handles holds the objects, calls the objects the   *)
(* calls were made on, in order; display and before are the object of the  *)
(* last call after and before it, bus the bus calls it made.               *)
(***************************************************************************)
SharedAddress(h) == IF h = 1 THEN LCDADDRESS ELSE OLEDADDRESS

SharedRows == 2

(* The first object is the demo's lcd; the second is of either family.     *)
SharedTypes(h) == IF h = 1 THEN {LCD_TYPE} ELSE DisplayTypes

MethodCall(name, args, text) == [name |-> name, args |-> args, text |-> text]

(* The method calls of the demo, one of each public method.                *)
SharedCalls ==
    { MethodCall("write", << >>, << "H" >>),
      MethodCall("writeString", << >>, << "H", "I" >>),
      MethodCall("clear", << >>, << >>),
      MethodCall("home", << >>, << >>),
      MethodCall("cursorMove", << 2, 1 >>, << >>),
      MethodCall("displayOff", << >>, << >>),
      MethodCall("displayOn", << >>, << >>),
      MethodCall("cursorOff", << >>, << >>),
      MethodCall("cursorOn", << >>, << >>),
      MethodCall("cursorBlinkOff", << >>, << >>),
      MethodCall("cursorBlinkOn", << >>, << >>),
      MethodCall("displayShiftLeft", << >>, << >>),
      MethodCall("displayShiftRight", << >>, << >>),
      MethodCall("cursorShiftLeft", << >>, << >>),
      MethodCall("cursorShiftRight", << >>, << >>),
      MethodCall("displayLeftToRight", << >>, << >>),
      MethodCall("displayRightToLeft", << >>, << >>),
      MethodCall("displayShiftOn", << >>, << >>),
      MethodCall("displayShiftOff", << >>, << >>),
      MethodCall("createCharacter", << 0 >> \o bell, << >>),
      MethodCall("backlightOff", << >>, << >>),
      MethodCall("backlightOn", << >>, << >>),
      MethodCall("setBrightness", << 128 >>, << >>),
      MethodCall("fadeOff", << >>, << >>),
      MethodCall("fadeOnce", << 15 >>, << >>),
      MethodCall("fadeBlink", << 15 >>, << >>) }

(* The method of the call, applied to the object.                          *)
Invoke(self, c) ==
    LET a == c.args
        t == c.text
        n == c.name
    IN  CASE n = "write" -> write(self, t[1])
          [] n = "writeString" -> writeString(self, t)
          [] n = "clear" -> clear(self)
          [] n = "home" -> home(self)
          [] n = "cursorMove" -> cursorMove(self, a[1], a[2])
          [] n = "displayOff" -> displayOff(self)
          [] n = "displayOn" -> displayOn(self)
          [] n = "cursorOff" -> cursorOff(self)
          [] n = "cursorOn" -> cursorOn(self)
          [] n = "cursorBlinkOff" -> cursorBlinkOff(self)
          [] n = "cursorBlinkOn" -> cursorBlinkOn(self)
          [] n = "displayShiftLeft" -> displayShiftLeft(self)
          [] n = "displayShiftRight" -> displayShiftRight(self)
          [] n = "cursorShiftLeft" -> cursorShiftLeft(self)
          [] n = "cursorShiftRight" -> cursorShiftRight(self)
          [] n = "displayLeftToRight" -> displayLeftToRight(self)
          [] n = "displayRightToLeft" -> displayRightToLeft(self)
          [] n = "displayShiftOn" -> displayShiftOn(self)
          [] n = "displayShiftOff" -> displayShiftOff(self)
          [] n = "createCharacter" -> createCharacter(self, a[1], Tail(a))
          [] n = "backlightOff" -> backlightOff(self)
          [] n = "backlightOn" -> backlightOn(self)
          [] n = "setBrightness" -> setBrightness(self, a[1])
          [] n = "fadeOff" -> fadeOff(self)
          [] n = "fadeOnce" -> fadeOnce(self, a[1])
          [] n = "fadeBlink" -> fadeBlink(self, a[1])

SharedInit ==
    /\ display = NoDisplay
    /\ before = NoDisplay
    /\ lastCall = NoCall
    /\ bus = << >>
    /\ raised = NoException
    /\ calls = << >>
    /\ log = << >>
    /\ handles = [h \in Handles |-> NoDisplay]
    /\ thread = << >>
    /\ wire = << >>
    /\ overlapped = FALSE

(* The call c made on object h, with result r.                             *)
SharedStep(h, c, r) ==
    LET run == Run(r.out, {})
    IN  /\ Len(calls) < MaxCalls
        /\ handles' = [handles EXCEPT ![h] = r.self]
        /\ display' = r.self
        /\ before' = handles[h]
        /\ lastCall' = c
        /\ bus' = run.trace
        /\ raised' = IF run.exc # NoException THEN run.exc ELSE r.exc
        /\ calls' = Append(calls, h)
        /\ UNCHANGED << log, thread, wire, overlapped >>

SharedConstruct(h) ==
    /\ handles[h] = NoDisplay
    /\ \E t \in SharedTypes(h) :
           SharedStep(h,
                      MethodCall("I2cCharDisplay",
                                 << SharedAddress(h), SharedRows >>, << t >>),
                      I2cCharDisplay(t, SharedAddress(h), SharedRows))

SharedCall(h) ==
    /\ handles[h] # NoDisplay
    /\ \E c \in SharedCalls : SharedStep(h, c, Invoke(handles[h], c))

SharedNext == \E h \in Handles : SharedConstruct(h) \/ SharedCall(h)

Shared == SharedInit /\ [][SharedNext]_vars

(***************************************************************************)
(* Reading the record of the last call.                                    *)
(***************************************************************************)
Called(name) == lastCall.name = name

IsLcd == display.displayType = LCD_TYPE

IsOled == display.displayType = OLED_TYPE

(* The bus writes of a trace, in order, without the waits.                 *)
Writes(trace) == SelectSeq(trace, IsWrite)

(* Bit m (a power of two) of the byte x.                                   *)
HasBit(x, m) == (x \div m) % 2 = 1

(* Bits 7..4 and bits 3..0 of a byte.                                      *)
UpperNibble(v) == (v \div 16) % 16

LowerNibble(v) == v % 16

(* The trace makes exactly the calls of the script, in order.              *)
Emits(trace, script) ==
    /\ Len(trace) = Len(script)
    /\ \A i \in 1 .. Len(script) :
           /\ trace[i].call = script[i].call
           /\ script[i].call = "sleep" => trace[i].us = script[i].us
           /\ IsWrite(script[i]) =>
                  /\ trace[i].addr = script[i].addr
                  /\ trace[i].value = script[i].value
           /\ script[i].call = "write_byte_data" => trace[i].cmd = script[i].cmd

(* The logical bytes a call sends, for the calls whose bytes are given by  *)
(* their arguments: rs is 1 for a data byte and 0 for a command byte.      *)
SendsBytes == lastCall.name \in {"write", "writeString", "clear", "setBrightness"}

BytesSent ==
    IF Called("write") \/ Called("writeString")
    THEN [i \in 1 .. Len(lastCall.text) |-> [rs |-> 1, v |-> ord(lastCall.text[i])]]
    ELSE IF Called("clear") THEN << [rs |-> 0, v |-> 1] >>
    ELSE [i \in 1 .. 10 |->
             [rs |-> 0,
              v |-> << 128, 42, 128, 121, 129, lastCall.args[1],
                       128, 120, 128, 40 >>[i]]]

(* The six bus writes of the k-th logical byte of a nibble-family call.    *)
SixWrites(k) == SubSeq(Writes(bus), 6 * k - 5, 6 * k)

(* C1 as stated: on a nibble-family display every logical byte v is six    *)
(* bus writes, the first three carrying bits 3..0 of v on data bits 7..4   *)
(* and the last three carrying bits 7..4 of v.                             *)
C1_LowNibbleFirst ==
    (IsLcd /\ SendsBytes) =>
        /\ Len(Writes(bus)) = 6 * Len(BytesSent)
        /\ \A k \in 1 .. Len(BytesSent) :
               /\ \A i \in 1 .. 3 :
                      UpperNibble(SixWrites(k)[i].value) = LowerNibble(BytesSent[k].v)
               /\ \A i \in 4 .. 6 :
                      UpperNibble(SixWrites(k)[i].value) = UpperNibble(BytesSent[k].v)

(* C1 amended: on a nibble-family display every logical byte v is six bus  *)
(* writes, the first three carrying bits 7..4 of v on data bits 7..4 and   *)
(* the last three carrying bits 3..0 of v.                                 *)
C1_UpperNibbleFirst ==
    (IsLcd /\ SendsBytes) =>
        /\ Len(Writes(bus)) = 6 * Len(BytesSent)
        /\ \A k \in 1 .. Len(BytesSent) :
               /\ \A i \in 1 .. 3 :
                      UpperNibble(SixWrites(k)[i].value) = UpperNibble(BytesSent[k].v)
               /\ \A i \in 4 .. 6 :
                      UpperNibble(SixWrites(k)[i].value) = LowerNibble(BytesSent[k].v)

(* A data byte with different nibbles (H is 0x48) and a command byte with  *)
(* different nibbles have been sent to a nibble-family display.            *)
C1_Witness ==
    /\ IsLcd
    /\ Called("write")
    /\ lastCall.text = << "H" >>
    /\ Len(Writes(bus)) = 6
    /\ UpperNibble(bus[1].value) = 4
    /\ UpperNibble(bus[4].value) = 8

(* The positions in the bus trace of the writes that send logical bytes   *)
(* on a nibble-family display: all the writes of a call, but for the       *)
(* constructor the writes after the 13 of the power-on pulses, and for     *)
(* the backlight calls none.                                               *)
NibblePositions ==
    LET all == SelectSeq([i \in 1 .. Len(bus) |-> i], LAMBDA i : IsWrite(bus[i]))
    IN  IF Called("backlightOn") \/ Called("backlightOff") THEN << >>
        ELSE IF Called("I2cCharDisplay") THEN SubSeq(all, 14, Len(all))
        ELSE all

(* C2: on a nibble-family display each nibble of a logical byte is three   *)
(* consecutive bus writes that differ only in the enable bit (bit 2):      *)
(* enable clear, enable set, enable clear, with no other call between.     *)
C2_EnableStrobe ==
    IsLcd =>
        LET p == NibblePositions IN
        /\ Len(p) % 3 = 0
        /\ \A k \in 1 .. (Len(p) \div 3) :
               LET i == p[3 * k - 2] IN
               /\ p[3 * k - 1] = i + 1
               /\ p[3 * k] = i + 2
               /\ ~HasBit(bus[i].value, 4)
               /\ bus[i + 1].value = bus[i].value + 4
               /\ bus[i + 2].value = bus[i].value

(* A call that sends ten logical bytes, twenty nibbles, has been made on   *)
(* a nibble-family display.                                                *)
C2_Witness ==
    /\ IsLcd
    /\ Called("fadeBlink")
    /\ Len(NibblePositions) = 60
    /\ bus[32].value = bus[31].value + 4

(* The register-select bit the k-th bus write of a nibble-family call      *)
(* must carry: 1 in the writes of data bytes, 0 in the writes of command   *)
(* bytes and of the power-on pulses.                                       *)
RegisterSelect(k) ==
    IF Called("write") \/ Called("writeString") THEN 1
    ELSE IF Called("createCharacter") /\ k > 6 THEN 1
    ELSE 0

(* C3: every bus write of a logical byte on a nibble-family display, and   *)
(* every write of the initialization sequence, carries the current         *)
(* backlight bit in bit 3 and the register-select bit in bit 0.            *)
C3_BacklightAndRegisterSelect ==
    (IsLcd /\ ~Idle) =>
        \A k \in 1 .. Len(Writes(bus)) :
            /\ HasBit(Writes(bus)[k].value, 8) = (display.lcdBacklightControl = 8)
            /\ ~(Called("backlightOn") \/ Called("backlightOff")) =>
                   Writes(bus)[k].value % 2 = RegisterSelect(k)

(* Data bytes have been written with the backlight switched off, and so    *)
(* have command bytes.                                                     *)
C3_Witness ==
    /\ IsLcd
    /\ display.lcdBacklightControl = LCD_BACKLIGHTOFF
    /\ Called("createCharacter")
    /\ Len(Writes(bus)) > 6
    /\ Writes(bus)[1].value % 2 = 0
    /\ Writes(bus)[7].value % 2 = 1

(* C4: on a byte-mode display every logical byte is exactly one bus write  *)
(* of (mode, payload), mode 0x80 for a command and 0x40 for data, and a    *)
(* wait of at least 1 ms follows the write before the next bus write.      *)
C4_OneWriteThenWait ==
    (IsOled /\ ~Idle /\ ~(Called("backlightOn") \/ Called("backlightOff"))) =>
        /\ \A i \in 1 .. Len(bus) :
               IsWrite(bus[i]) =>
                   /\ bus[i].call = "write_byte_data"
                   /\ bus[i].cmd \in {128, 64}
                   /\ i < Len(bus)
                   /\ bus[i + 1].call = "sleep"
                   /\ bus[i + 1].us >= 1000
        /\ SendsBytes =>
               /\ Len(Writes(bus)) = Len(BytesSent)
               /\ \A k \in 1 .. Len(BytesSent) :
                      /\ Writes(bus)[k].cmd = (IF BytesSent[k].rs = 1 THEN 64 ELSE 128)
                      /\ Writes(bus)[k].value = BytesSent[k].v

(* Two data bytes have been written to a byte-mode display.                *)
C4_Witness ==
    /\ IsOled
    /\ Called("writeString")
    /\ Len(lastCall.text) = 2
    /\ Len(bus) = 4
    /\ bus[1].cmd = 64
    /\ bus[2].call = "sleep"

(* The row-offset tables as the specification gives them.                 *)
RowOffsets ==
    IF display.rows <= 2 THEN << 0, 64 >>
    ELSE IF IsLcd THEN << 0, 64, 20, 84 >>
    ELSE << 0, 32, 64, 96 >>

(* The set-DDRAM-address command for a row of the display and a column.    *)
SetAddress(row, col) ==
    sendCommand(display, BitOr(128, (col - 1) + RowOffsets[row]))

(* C5: cursorMove(row, col) with row >= 1 emits exactly one                *)
(* set-DDRAM-address command with payload 0x80 | ((col-1) + offset[r-1]),  *)
(* r = min(row, rowCount), for the tables of both families; a row above    *)
(* rowCount behaves as rowCount.                                           *)
C5_CursorAddress ==
    (Called("cursorMove") /\ lastCall.args[1] >= 1 /\ display.rows \in 1 .. 4) =>
        LET row == lastCall.args[1]
            r == IF row > display.rows THEN display.rows ELSE row
        IN  /\ raised = NoException
            /\ display = before
            /\ Emits(bus, SetAddress(r, lastCall.args[2]))

(* cursorMove was called with a row below the bottom row of a three-row    *)
(* byte-mode display and the address of row 3 was sent.                    *)
C5_Witness ==
    /\ Called("cursorMove")
    /\ IsOled
    /\ display.rows = 3
    /\ lastCall.args = << 5, 2 >>
    /\ Len(bus) = 2
    /\ bus[1].value = 128 + 64 + 1

(* C6: for every integer row, also 0 and negative rows, cursorMove uses a  *)
(* row in 1 .. rowCount (the row clamped to that range), and raises no     *)
(* exception.                                                              *)
C6_RowClampedBelow ==
    (Called("cursorMove") /\ display.rows \in 1 .. 4) =>
        LET row == lastCall.args[1]
            r == IF row > display.rows THEN display.rows
                 ELSE IF row < 1 THEN 1 ELSE row
        IN  /\ raised = NoException
            /\ Emits(bus, SetAddress(r, lastCall.args[2]))

(* The value of a register after a call that sets or clears bit mask.      *)
WithBit(x, mask, set) ==
    IF set THEN (IF HasBit(x, mask) THEN x ELSE x + mask)
    ELSE (IF HasBit(x, mask) THEN x - mask ELSE x)

DisplayControlCalls ==
    {"displayOn", "displayOff", "cursorOn", "cursorOff", "cursorBlinkOn",
     "cursorBlinkOff"}

DisplayControlCall(name, mask, set) ==
    Called(name) =>
        /\ raised = NoException
        /\ display = [before EXCEPT !.lcdDisplayControlCommand =
                          WithBit(before.lcdDisplayControlCommand, mask, set)]
        /\ Emits(bus, sendCommand(display,
                                  BitOr(8, display.lcdDisplayControlCommand)))

(* The display-control command in the trace of the constructor: the        *)
(* fourth logical command from the end, before entry-mode, clear (with     *)
(* its wait) and home.                                                     *)
ConstructorDisplayControl ==
    LET n == Len(sendCommand(display, 0))
    IN  SubSeq(bus, Len(bus) - 4 * n, Len(bus) - 3 * n - 1)

(* C7: displayOn, displayOff, cursorOn, cursorOff, cursorBlinkOn and       *)
(* cursorBlinkOff set or clear their own bit (0x04, 0x02, 0x01) of the     *)
(* display-control register, leave the rest of the object unchanged and    *)
(* emit one command 0x08 | register; no other call changes the register,   *)
(* so the last display-control command sent is the register's value.       *)
C7_DisplayControl ==
    /\ DisplayControlCall("displayOn", 4, TRUE)
    /\ DisplayControlCall("displayOff", 4, FALSE)
    /\ DisplayControlCall("cursorOn", 2, TRUE)
    /\ DisplayControlCall("cursorOff", 2, FALSE)
    /\ DisplayControlCall("cursorBlinkOn", 1, TRUE)
    /\ DisplayControlCall("cursorBlinkOff", 1, FALSE)
    /\ Called("I2cCharDisplay") =>
           Emits(ConstructorDisplayControl,
                 sendCommand(display, BitOr(8, display.lcdDisplayControlCommand)))
    /\ (~Idle /\ ~Called("I2cCharDisplay")
          /\ lastCall.name \notin DisplayControlCalls) =>
           display.lcdDisplayControlCommand = before.lcdDisplayControlCommand

(* The blink bit was cleared while the display and cursor bits were set.   *)
C7_Witness ==
    /\ Called("cursorBlinkOff")
    /\ before.lcdDisplayControlCommand = 7
    /\ display.lcdDisplayControlCommand = 6
    /\ Len(Writes(bus)) >= 1

(* C8 as stated: from every state a constructed display is in between     *)
(* two calls, displayOn() followed by displayOff() leaves the              *)
(* display-control register equal to its value before displayOn().         *)
C8_OnOffRestores ==
    (Constructed /\ Idle) =>
        displayOff(displayOn(display).self).self.lcdDisplayControlCommand
            = display.lcdDisplayControlCommand

(* C8 amended: displayOn() followed by displayOff() leaves the             *)
(* display-control register equal to its value before displayOn() with     *)
(* the display bit 0x04 cleared.                                           *)
C8_OnOffClearsDisplayBit ==
    (Constructed /\ Idle) =>
        displayOff(displayOn(display).self).self.lcdDisplayControlCommand
            = WithBit(display.lcdDisplayControlCommand, 4, FALSE)

(* The display is on with the cursor and the blink on; displayOn() and    *)
(* then displayOff() leave the cursor and the blink on, the display off.   *)
C8_Witness ==
    /\ Constructed
    /\ Idle
    /\ display.lcdDisplayControlCommand = 7
    /\ displayOn(display).self.lcdDisplayControlCommand = 7
    /\ displayOff(displayOn(display).self).self.lcdDisplayControlCommand = 3

(* C9: a display-control or entry-mode call made twice in a row leaves     *)
(* the object after the second call as it was after the first.             *)
C9_Idempotent ==
    (Constructed /\ Idle) =>
        /\ displayOn(displayOn(display).self).self = displayOn(display).self
        /\ displayOff(displayOff(display).self).self = displayOff(display).self
        /\ cursorOn(cursorOn(display).self).self = cursorOn(display).self
        /\ cursorOff(cursorOff(display).self).self = cursorOff(display).self
        /\ cursorBlinkOn(cursorBlinkOn(display).self).self
               = cursorBlinkOn(display).self
        /\ cursorBlinkOff(cursorBlinkOff(display).self).self
               = cursorBlinkOff(display).self
        /\ displayLeftToRight(displayLeftToRight(display).self).self
               = displayLeftToRight(display).self
        /\ displayRightToLeft(displayRightToLeft(display).self).self
               = displayRightToLeft(display).self
        /\ displayShiftOn(displayShiftOn(display).self).self
               = displayShiftOn(display).self
        /\ displayShiftOff(displayShiftOff(display).self).self
               = displayShiftOff(display).self

(* The display is off with the blink on: the first displayOn() changes    *)
(* the register and the second leaves it.                                  *)
C9_Witness ==
    /\ Constructed
    /\ Idle
    /\ display.lcdDisplayControlCommand = 1
    /\ displayOn(display).self.lcdDisplayControlCommand = 5
    /\ displayOn(displayOn(display).self).self.lcdDisplayControlCommand = 5

EntryModeCall(name, mask, set) ==
    Called(name) =>
        /\ raised = NoException
        /\ display = [before EXCEPT !.lcdEntryModeCommand =
                          WithBit(before.lcdEntryModeCommand, mask, set)]
        /\ Emits(bus, sendCommand(display, BitOr(4, display.lcdEntryModeCommand)))

(* C10: displayLeftToRight, displayRightToLeft, displayShiftOn and         *)
(* displayShiftOff set or clear their own bit (0x02 direction, 0x01        *)
(* shift) of the entry-mode register, leave the rest of the object         *)
(* unchanged and emit one command 0x04 | register.                         *)
C10_EntryMode ==
    /\ EntryModeCall("displayLeftToRight", 2, TRUE)
    /\ EntryModeCall("displayRightToLeft", 2, FALSE)
    /\ EntryModeCall("displayShiftOn", 1, TRUE)
    /\ EntryModeCall("displayShiftOff", 1, FALSE)

(* The direction bit was cleared while the shift bit was set.              *)
C10_Witness ==
    /\ Called("displayRightToLeft")
    /\ before.lcdEntryModeCommand = 3
    /\ display.lcdEntryModeCommand = 1
    /\ Len(Writes(bus)) >= 1

(* A shift call: one command 0x10 | class | direction, object unchanged.   *)
ShiftCall(name, class, direction) ==
    Called(name) =>
        /\ raised = NoException
        /\ display = before
        /\ Emits(bus, sendCommand(display, 16 + class + direction))

(* C11: displayShiftLeft, displayShiftRight, cursorShiftLeft and           *)
(* cursorShiftRight each emit exactly one command with payload             *)
(* 0x10 | class | direction (class 0x08 display, 0x00 cursor; direction    *)
(* 0x04 right, 0x00 left) and leave the entry-mode, display-control and    *)
(* function-set registers and the backlight bit unchanged.                 *)
C11_Shift ==
    /\ ShiftCall("displayShiftLeft", 8, 0)
    /\ ShiftCall("displayShiftRight", 8, 4)
    /\ ShiftCall("cursorShiftLeft", 0, 0)
    /\ ShiftCall("cursorShiftRight", 0, 4)

(* The display was shifted right on a byte-mode display whose registers    *)
(* are not the ones the constructor leaves: command 0x1C, one write.       *)
C11_Witness ==
    /\ Called("displayShiftRight")
    /\ IsOled
    /\ display.lcdEntryModeCommand = 3
    /\ display.lcdDisplayControlCommand = 7
    /\ Len(Writes(bus)) = 1
    /\ Writes(bus)[1].value = 28

(* The script that sends the logical bytes [rs, v] in order: rs is 1 for   *)
(* a data byte and 0 for a command byte.                                   *)
SendAll(self, bytes) ==
    LET n == Len(sendCommand(self, 0))
        sent == [i \in 1 .. Len(bytes) |->
                    IF bytes[i].rs = 1 THEN sendData(self, bytes[i].v)
                    ELSE sendCommand(self, bytes[i].v)]
    IN  [j \in 1 .. n * Len(bytes) |->
            sent[((j - 1) \div n) + 1][((j - 1) % n) + 1]]

(* The glyph passed to the last call of createCharacter, and the logical   *)
(* bytes of a set-CGRAM-address command followed by its first k rows.      *)
GlyphRows == Tail(lastCall.args)

GlyphBytes(k) ==
    [i \in 1 .. k + 1 |->
        IF i = 1 THEN [rs |-> 0, v |-> 64 + 8 * (lastCall.args[1] % 8)]
        ELSE [rs |-> 1, v |-> GlyphRows[i - 1]]]

(* C12: createCharacter(address, bitmapRows) with a glyph of 8 rows emits  *)
(* its set-CGRAM-address command and then the 8 rows bitmapRows[0..7] as   *)
(* 8 data bytes in index order.                                            *)
C12_EightRows ==
    (Called("createCharacter") /\ Len(GlyphRows) = 8) =>
        Emits(bus, SendAll(display, GlyphBytes(8)))

(* C13: for every integer address createCharacter emits exactly one        *)
(* set-CGRAM-address command, as its first logical byte, with payload      *)
(* 0x40 | ((address & 0x7) << 3), and the data bytes that follow are the   *)
(* entries of the glyph in increasing index order.                         *)
C13_CgramAddress ==
    Called("createCharacter") =>
        /\ display = before
        /\ LET k == (Len(bus) \div Len(sendCommand(display, 0))) - 1
           IN  /\ k \in 0 .. Len(GlyphRows)
               /\ Emits(bus, SendAll(display, GlyphBytes(k)))

(* Address 11 selects slot 3 on a nibble-family display: the command is    *)
(* 0x58, sent as the nibbles 5 and 8, and the first row follows as data.   *)
C13_Witness ==
    /\ Called("createCharacter")
    /\ IsLcd
    /\ lastCall.args[1] = 11
    /\ GlyphRows = box
    /\ Len(Writes(bus)) > 12
    /\ UpperNibble(Writes(bus)[1].value) = 5
    /\ UpperNibble(Writes(bus)[4].value) = 8
    /\ UpperNibble(Writes(bus)[7].value) = 1
    /\ UpperNibble(Writes(bus)[10].value) = 15

(* A backlight call on a nibble-family display: the backlight bit is set   *)
(* to bit, nothing else of the object changes, and the one bus write is    *)
(* the byte bit.                                                           *)
BacklightCall(name, bit) ==
    (Called(name) /\ IsLcd) =>
        /\ raised = NoException
        /\ display = [before EXCEPT !.lcdBacklightControl = bit]
        /\ Len(bus) = 1
        /\ bus[1].call = "write_byte"
        /\ bus[1].addr = display.i2cAddress
        /\ bus[1].value = bit

(* C14: on a nibble-family display backlightOff() and backlightOn() set    *)
(* the backlight bit to 0x00 / 0x08 and emit exactly one bus write of      *)
(* that bit alone; backlightOff() then backlightOn() makes the two bus     *)
(* writes 0x00 then 0x08 and leaves the entry-mode, display-control and    *)
(* function-set registers unchanged.                                       *)
C14_Backlight ==
    /\ BacklightCall("backlightOff", 0)
    /\ BacklightCall("backlightOn", 8)
    /\ (Constructed /\ Idle /\ IsLcd) =>
           LET off == backlightOff(display)
               on == backlightOn(off.self)
           IN  /\ Run(off.out \o on.out, {}).trace
                      = << [call |-> "write_byte", addr |-> display.i2cAddress,
                            value |-> 0, ok |-> TRUE],
                           [call |-> "write_byte", addr |-> display.i2cAddress,
                            value |-> 8, ok |-> TRUE] >>
               /\ on.self = [display EXCEPT !.lcdBacklightControl = 8]

(* The backlight was switched on again after it had been switched off,     *)
(* on a nibble-family display with the cursor on: one write of 0x08.       *)
C14_Witness ==
    /\ Called("backlightOn")
    /\ IsLcd
    /\ before.lcdBacklightControl = 0
    /\ display.lcdBacklightControl = 8
    /\ display.lcdDisplayControlCommand = 6
    /\ Len(bus) = 1
    /\ bus[1].value = 8

(* The last call, on a byte-mode display, made exactly one bus write per   *)
(* payload, in order, each a command (mode 0x80) to the display's address  *)
(* and each followed by a wait of at least 1 ms, and changed no register.  *)
OledCommands(payloads) ==
    /\ raised = NoException
    /\ display = before
    /\ Len(bus) = 2 * Len(payloads)
    /\ \A i \in 1 .. Len(payloads) :
           /\ bus[2 * i - 1].call = "write_byte_data"
           /\ bus[2 * i - 1].addr = display.i2cAddress
           /\ bus[2 * i - 1].cmd = 128
           /\ bus[2 * i - 1].value = payloads[i]
           /\ bus[2 * i].call = "sleep"
           /\ bus[2 * i].us >= 1000

(* The unlock / re-lock envelope with the payloads a and b in positions    *)
(* 5 and 6.                                                                *)
Envelope(a, b) == << 128, 42, 128, 121, a, b, 128, 120, 128, 40 >>

(* C15: on a byte-mode display setBrightness(value), value in 0 .. 255,    *)
(* emits exactly 10 bus writes with the payloads 0x80, 0x2A, 0x80, 0x79,   *)
(* 0x81, value, 0x80, 0x78, 0x80, 0x28 in this order, each followed by     *)
(* the settle wait, and changes no register.                               *)
C15_SetBrightness ==
    (IsOled /\ Called("setBrightness") /\ lastCall.args[1] \in 0 .. 255) =>
        OledCommands(Envelope(129, lastCall.args[1]))

(* setBrightness(128) was called on a byte-mode display: 10 writes, the    *)
(* sixth with the value.                                                   *)
C15_Witness ==
    /\ IsOled
    /\ Called("setBrightness")
    /\ lastCall.args = << 128 >>
    /\ Len(Writes(bus)) = 10
    /\ Writes(bus)[5].value = 129
    /\ Writes(bus)[6].value = 128

(* C16: on a byte-mode display fadeOff(), fadeOnce(rate) and               *)
(* fadeBlink(rate) emit the envelope of setBrightness with 0x23 in         *)
(* position 5 and the mode byte in position 6: 0x00 for fadeOff,           *)
(* 0x20 | (rate & 0x0F) for fadeOnce, 0x30 | (rate & 0x0F) for fadeBlink,  *)
(* so that for every integer rate bits 5..4 are the mode.                  *)
C16_Fade ==
    IsOled =>
        /\ Called("fadeOff") => OledCommands(Envelope(35, 0))
        /\ Called("fadeOnce") =>
               /\ OledCommands(Envelope(35, 32 + (lastCall.args[1] % 16)))
               /\ Writes(bus)[6].value \div 16 = 2
        /\ Called("fadeBlink") =>
               /\ OledCommands(Envelope(35, 48 + (lastCall.args[1] % 16)))
               /\ Writes(bus)[6].value \div 16 = 3

(* fadeOnce was called with the rate 0x5A, which has bits above bit 3:     *)
(* the mode byte is 0x2A.                                                  *)
C16_Witness ==
    /\ IsOled
    /\ Called("fadeOnce")
    /\ lastCall.args = << 90 >>
    /\ Len(Writes(bus)) = 10
    /\ Writes(bus)[5].value = 35
    /\ Writes(bus)[6].value = 42

(* C17: clear() emits exactly one command with payload 0x01 and then,      *)
(* before it returns and so before any later bus write, waits at least     *)
(* 1.53 ms; it changes no register.                                        *)
C17_ClearThenWait ==
    Called("clear") =>
        LET n == Len(sendCommand(display, 1)) IN
        /\ raised = NoException
        /\ display = before
        /\ Len(bus) = n + 1
        /\ Emits(SubSeq(bus, 1, n), sendCommand(display, 1))
        /\ bus[n + 1].call = "sleep"
        /\ bus[n + 1].us >= 1530

(* clear() was called on a nibble-family display: six writes, the fourth   *)
(* carrying the nibble 1, and then the wait.                               *)
C17_Witness ==
    /\ Called("clear")
    /\ IsLcd
    /\ Len(bus) = 7
    /\ UpperNibble(bus[1].value) = 0
    /\ UpperNibble(bus[4].value) = 1
    /\ bus[7].call = "sleep"

(* C18: in every state and for both families home() emits the bus writes   *)
(* of cursorMove(1, 1), one set-DDRAM-address command with payload 0x80,   *)
(* and never the return-home command 0x02.                                 *)
C18_HomeIsCursorMove ==
    /\ Called("home") =>
           /\ raised = NoException
           /\ display = before
           /\ Emits(bus, cursorMove(before, 1, 1).out)
           /\ Emits(bus, SendAll(display, << [rs |-> 0, v |-> 128] >>))
    /\ (Constructed /\ Idle) =>
           Emits(Run(home(display).out, {}).trace,
                 Run(cursorMove(display, 1, 1).out, {}).trace)

(* home() was called on a byte-mode display of four rows with the cursor   *)
(* on: one write of the command 0x80.                                      *)
C18_Witness ==
    /\ Called("home")
    /\ IsOled
    /\ display.rows = 4
    /\ display.lcdDisplayControlCommand = 6
    /\ Len(Writes(bus)) = 1
    /\ Writes(bus)[1].cmd = 128
    /\ Writes(bus)[1].value = 128

(* C19: writeString(s) emits exactly one data byte per character of s, in  *)
(* string order, with the character's code as payload, and nothing else    *)
(* (nothing at all for the empty string); whichever bus writes fail, the   *)
(* writes of all the characters are attempted and nothing is raised.       *)
C19_WriteString ==
    Called("writeString") =>
        /\ raised = NoException
        /\ display = before
        /\ Emits(bus, SendAll(display,
                              [i \in 1 .. Len(lastCall.text) |->
                                  [rs |-> 1, v |-> ord(lastCall.text[i])]]))

(* writeString("HI") on a byte-mode display: the write of H failed and     *)
(* the write of I was made after it, and succeeded.                        *)
C19_Witness ==
    /\ Called("writeString")
    /\ IsOled
    /\ lastCall.text = << "H", "I" >>
    /\ Len(bus) = 4
    /\ bus[1].value = 72
    /\ ~bus[1].ok
    /\ bus[3].value = 73
    /\ bus[3].ok

(* What a call recorded in calls does on the bus and on sleep().           *)
CallTrace(c) ==
    Run((IF c.name = "clear" THEN clear(display)
         ELSE IF c.name = "writeString" THEN writeString(display, c.text)
         ELSE cursorMove(display, c.args[1], c.args[2])).out, {}).trace

RECURSIVE Concatenation(_)
Concatenation(cs) ==
    IF cs = << >> THEN << >>
    ELSE CallTrace(Head(cs)) \o Concatenation(Tail(cs))

(* The six bus writes of the logical byte v on the nibble-family display   *)
(* at 0x27 with the backlight on: bits 7..4 of v, then bits 3..0, each as  *)
(* enable clear, set, clear; rs is 1 for data.                             *)
Frame(v, rs) ==
    LET w(b) == [call |-> "write_byte", addr |-> 39, value |-> b, ok |-> TRUE]
        hi == 16 * UpperNibble(v) + 8 + rs
        lo == 16 * LowerNibble(v) + 8 + rs
    IN  << w(hi), w(hi + 4), w(hi), w(lo), w(lo + 4), w(lo) >>

(* The calls of the scenario: clear(); writeString("HI");                  *)
(* cursorMove(2, 1); writeString("LO").                                    *)
Scenario ==
    << [name |-> "clear", args |-> << >>, text |-> << >>],
       [name |-> "writeString", args |-> << >>, text |-> << "H", "I" >>],
       [name |-> "cursorMove", args |-> << 2, 1 >>, text |-> << >>],
       [name |-> "writeString", args |-> << >>, text |-> << "L", "O" >>] >>

(* C20: the bus trace of a sequence of calls is the concatenation of the   *)
(* traces of the calls in call order; on a 2-row nibble-family display     *)
(* at 0x27 the scenario emits, after construction, the clear command (6    *)
(* writes) and its wait, then H, I as data (6 writes each), the command    *)
(* 0xC0 (6 writes), L and O as data (6 writes each), all to 0x27 and       *)
(* nothing else.                                                           *)
C20_Concatenation ==
    /\ log = Concatenation(calls)
    /\ (IsLcd /\ display.rows = 2 /\ display.i2cAddress = 39 /\ calls = Scenario) =>
           /\ Len(log) = 37
           /\ log[7].call = "sleep"
           /\ log[7].us >= 1530
           /\ Writes(log) = Frame(1, 0) \o Frame(72, 1) \o Frame(73, 1)
                              \o Frame(192, 0) \o Frame(76, 1) \o Frame(79, 1)

(* The scenario has been run on a 2-row nibble-family display at 0x27.     *)
C20_Witness ==
    /\ IsLcd
    /\ display.rows = 2
    /\ display.i2cAddress = 39
    /\ calls = Scenario
    /\ Len(log) = 37
    /\ log[37].value = 249

(* What the recorded call does when it is made on the object as it was     *)
(* before the call and no bus write fails.                                 *)
Expected ==
    LET a == lastCall.args
        t == lastCall.text
        n == lastCall.name
    IN  CASE n = "I2cCharDisplay" -> I2cCharDisplay(t[1], a[1], a[2])
          [] n = "write" -> write(before, t[1])
          [] n = "writeString" -> writeString(before, t)
          [] n = "clear" -> clear(before)
          [] n = "home" -> home(before)
          [] n = "cursorMove" -> cursorMove(before, a[1], a[2])
          [] n = "displayOff" -> displayOff(before)
          [] n = "displayOn" -> displayOn(before)
          [] n = "cursorOff" -> cursorOff(before)
          [] n = "cursorOn" -> cursorOn(before)
          [] n = "cursorBlinkOff" -> cursorBlinkOff(before)
          [] n = "cursorBlinkOn" -> cursorBlinkOn(before)
          [] n = "displayShiftLeft" -> displayShiftLeft(before)
          [] n = "displayShiftRight" -> displayShiftRight(before)
          [] n = "cursorShiftLeft" -> cursorShiftLeft(before)
          [] n = "cursorShiftRight" -> cursorShiftRight(before)
          [] n = "displayLeftToRight" -> displayLeftToRight(before)
          [] n = "displayRightToLeft" -> displayRightToLeft(before)
          [] n = "displayShiftOn" -> displayShiftOn(before)
          [] n = "displayShiftOff" -> displayShiftOff(before)
          [] n = "createCharacter" -> createCharacter(before, a[1], Tail(a))
          [] n = "backlightOff" -> backlightOff(before)
          [] n = "backlightOn" -> backlightOn(before)
          [] n = "setBrightness" -> setBrightness(before, a[1])
          [] n = "fadeOff" -> fadeOff(before)
          [] n = "fadeOnce" -> fadeOnce(before, a[1])
          [] n = "fadeBlink" -> fadeBlink(before, a[1])

(* Some, and all, of the bus writes of the last call failed.               *)
SomeWriteFailed == \E i \in 1 .. Len(bus) : IsWrite(bus[i]) /\ ~bus[i].ok

EveryWriteFailed ==
    /\ Writes(bus) # << >>
    /\ \A i \in 1 .. Len(bus) : IsWrite(bus[i]) => ~bus[i].ok

(* C21: whichever bus writes of a call fail, construction included, the    *)
(* failure raises nothing, the call makes every bus write and every wait   *)
(* it makes when no write fails, once and in the same order, and leaves    *)
(* the object as it does then.                                             *)
C21_FailuresSwallowed ==
    ~Idle =>
        LET e == Expected IN
        /\ raised # "IOError"
        /\ raised = e.exc
        /\ display = e.self
        /\ Emits(bus, e.out)

(* A byte-mode display was constructed with no device on the bus: every    *)
(* write failed, the whole sequence was run and the registers were set.    *)
C21_Witness ==
    /\ Called("I2cCharDisplay")
    /\ IsOled
    /\ EveryWriteFailed
    /\ raised = NoException
    /\ Len(Writes(bus)) > 20
    /\ Writes(bus)[Len(Writes(bus))].value = 128
    /\ display.lcdDisplayControlCommand = 4

(* C22: the constructor called with a family selector that is neither the  *)
(* nibble family nor the byte-mode family signals a ConfigurationError,    *)
(* and there is no constructed handle with such a selector.                *)
C22_InvalidFamilyRejected ==
    /\ (Called("I2cCharDisplay") /\ lastCall.text[1] \notin DisplayTypes) =>
           raised = "ConfigurationError"
    /\ (Constructed /\ Idle) => display.displayType \in DisplayTypes

(* The end of the trace of the last call: its last k calls.                *)
Last(k) == SubSeq(bus, Len(bus) - k + 1, Len(bus))

(* C23: when the construction of a handle of a valid family returns, the   *)
(* initialization sequence has run to its end (the home command) and the   *)
(* registers hold entry mode 0x02, display control 0x04 and function set   *)
(* 0x08 if rowCount > 1 else 0x00; a method is only ever called on a       *)
(* constructed handle, so the initialization precedes its bus writes.      *)
C23_InitDefaults ==
    /\ Called("I2cCharDisplay") =>
           /\ raised = NoException
           /\ display.lcdEntryModeCommand = 2
           /\ display.lcdDisplayControlCommand = 4
           /\ display.lcdFunctionSetCommand = (IF display.rows > 1 THEN 8 ELSE 0)
           /\ Emits(Last(Len(sendCommand(display, 0))),
                    SendAll(display, << [rs |-> 0, v |-> 128] >>))
    /\ (~Idle /\ ~Called("I2cCharDisplay")) =>
           /\ before # NoDisplay
           /\ before.displayType \in DisplayTypes

(* A nibble-family display of four rows was constructed: the whole         *)
(* sequence was run and the function set holds the two-line bit.           *)
C23_Witness ==
    /\ Called("I2cCharDisplay")
    /\ IsLcd
    /\ display.rows = 4
    /\ display.lcdFunctionSetCommand = 8
    /\ display.lcdDisplayControlCommand = 4
    /\ Len(Writes(bus)) = 13 + 6 * 5

(* C24: for both families the initialization sequence ends with the five   *)
(* commands function set (0x20 | functionSetBits), display control 0x0C,   *)
(* entry mode 0x06, clear 0x01 followed by its wait, and home 0x80, in     *)
(* this order; every other write of the sequence comes before them.        *)
C24_InitTail ==
    Called("I2cCharDisplay") =>
        LET n == Len(sendCommand(display, 0))
            fs == IF display.rows > 1 THEN 40 ELSE 32
        IN  /\ Len(bus) > 5 * n + 1
            /\ Emits(SubSeq(bus, Len(bus) - 5 * n, Len(bus) - n - 1),
                     SendAll(display, << [rs |-> 0, v |-> fs], [rs |-> 0, v |-> 12],
                                         [rs |-> 0, v |-> 6], [rs |-> 0, v |-> 1] >>))
            /\ bus[Len(bus) - n].call = "sleep"
            /\ bus[Len(bus) - n].us >= 1530
            /\ Emits(Last(n), SendAll(display, << [rs |-> 0, v |-> 128] >>))

(* A byte-mode display of two rows was constructed: the last five writes   *)
(* carry 0x28, 0x0C, 0x06, 0x01 and 0x80.                                  *)
C24_Witness ==
    /\ Called("I2cCharDisplay")
    /\ IsOled
    /\ display.rows = 2
    /\ Len(Writes(bus)) > 5
    /\ LET w == Writes(bus)
           k == Len(Writes(bus))
       IN  << w[k - 4].value, w[k - 3].value, w[k - 2].value, w[k - 1].value,
              w[k].value >> = << 40, 12, 6, 1, 128 >>

(* The k-th write of the last call and what follows it up to the next      *)
(* write: the positions in bus.                                            *)
WritePosition(k) ==
    SelectSeq([i \in 1 .. Len(bus) |-> i], LAMBDA i : IsWrite(bus[i]))[k]

(* The waits between the k-th write of the last call and the next write    *)
(* add up to at least us microseconds.                                     *)
WaitAfterWrite(k, us) ==
    \E i \in (WritePosition(k) + 1) .. (WritePosition(k + 1) - 1) :
        bus[i].call = "sleep" /\ bus[i].us >= us

(* C25: the nibble-family initialization emits, before its first 6-write   *)
(* command, exactly three pulses of data 0x30 with the backlight bit       *)
(* (enable clear, set, clear), each followed by a wait of at least 4.1 ms  *)
(* before the next bus write, and then one pulse of data 0x20.             *)
C25_LcdPulses ==
    (Called("I2cCharDisplay") /\ IsLcd) =>
        LET w == Writes(bus) IN
        /\ Len(w) = 13 + 6 * 5
        /\ \A p \in 0 .. 2 :
               /\ w[3 * p + 2].value = 48 + 8
               /\ w[3 * p + 3].value = 48 + 8 + 4
               /\ w[3 * p + 4].value = 48 + 8
               /\ WaitAfterWrite(3 * p + 4, 4100)
        /\ w[11].value = 32 + 8
        /\ w[12].value = 32 + 8 + 4
        /\ w[13].value = 32 + 8
        /\ UpperNibble(w[1].value) # 3
        /\ \A k \in 14 .. Len(w) : HasBit(w[k].value, 4) = (k % 3 = 0)

(* A nibble-family display was constructed: the tenth write ends the       *)
(* third pulse and the eleventh starts the pulse that selects 4 bits.      *)
C25_Witness ==
    /\ Called("I2cCharDisplay")
    /\ IsLcd
    /\ Len(Writes(bus)) > 13
    /\ Writes(bus)[10].value = 56
    /\ Writes(bus)[11].value = 40
    /\ bus[WritePosition(10) + 1].call = "sleep"
    /\ bus[WritePosition(10) + 1].us = 4300

(* C26: backlightOn and backlightOff called on a byte-mode handle, and     *)
(* setBrightness, fadeOff, fadeOnce and fadeBlink called on a              *)
(* nibble-family handle, emit no bus write.                                *)
C26_OwnFamilyOnly ==
    /\ (IsOled /\ lastCall.name \in {"backlightOn", "backlightOff"}) =>
           Writes(bus) = << >>
    /\ (IsLcd /\ lastCall.name \in {"setBrightness", "fadeOff", "fadeOnce",
                                      "fadeBlink"}) =>
           Writes(bus) = << >>

(* The enable-set write at position i of the wire is the middle of a       *)
(* strobe: the write before it, and the write after it once that is made,  *)
(* are the same byte with enable clear, made by the same thread.           *)
StrobeConsecutive(i) ==
    LET low == [wire[i] EXCEPT !.value = @ - 4]
    IN  /\ i > 1
        /\ wire[i - 1] = low
        /\ i < Len(wire) => wire[i + 1] = low

(* The thread has made one or two of the three writes of a nibble.         *)
InStrobe(t) ==
    /\ thread[t].pc = "send"
    /\ thread[t].op = "write"
    /\ Len(thread[t].todo) % 3 # 0

(* C27: the driver takes no lock around bus access.  While a thread is     *)
(* between the strobe writes of a nibble, another thread that has a bus    *)
(* write to make can make it; as long as no call was made while another    *)
(* ran, the three strobe writes of every nibble are consecutive on the     *)
(* bus.                                                                    *)
C27_NoLock ==
    /\ \A t \in Threads, u \in Threads :
           (t # u /\ InStrobe(t) /\ thread[u].pc = "send") => ENABLED Send(u)
    /\ ~overlapped =>
           \A i \in 1 .. Len(wire) :
               HasBit(wire[i].value, 4) => StrobeConsecutive(i)

(* Both threads have written a byte, each to its own display, and a write  *)
(* of thread 2 lies between the enable-set write of a nibble of thread 1   *)
(* and the write that ends the strobe.                                     *)
C27_Witness ==
    /\ \A t \in Threads : thread[t].pc = "done" /\ thread[t].op = "write"
    /\ thread[1].h # thread[2].h
    /\ \E i \in 1 .. Len(wire) - 2 :
           /\ wire[i].thread = 1
           /\ HasBit(wire[i].value, 4)
           /\ wire[i + 1].thread = 2
           /\ wire[i + 2].thread = 1
           /\ wire[i + 2].value = wire[i].value - 4

(* The last byte written to the device of a handle.                        *)
LastByte(h) ==
    LET w == SelectSeq(wire, LAMBDA e : e.addr = HandleAddress(h))
    IN  w[Len(w)].value

(* C28: as long as no call was made while another ran, whenever no call    *)
(* is in progress the backlight bit (bit 3) of the last byte written to    *)
(* the device of a nibble-family handle equals the handle's backlight      *)
(* bit.                                                                    *)
C28_BacklightBit ==
    (~overlapped /\ \A t \in Threads : ~Running(t)) =>
        \A h \in Handles :
            HasBit(LastByte(h), 8) = (handles[h].lcdBacklightControl = 8)

(* backlightOff() ran on a handle while another thread wrote a byte to     *)
(* it: both calls have finished, the handle's backlight bit is off and     *)
(* the last byte written to the device has the backlight bit on.           *)
C28_Witness ==
    /\ thread[1].pc = "done"
    /\ thread[1].op = "write"
    /\ thread[2].pc = "done"
    /\ thread[2].op = "backlightOff"
    /\ thread[1].h = thread[2].h
    /\ overlapped
    /\ handles[thread[1].h].lcdBacklightControl = 0
    /\ HasBit(LastByte(thread[1].h), 8)

(* The toggles of the two registers: the register, the command that        *)
(* carries it, the bit and whether the call sets it.                       *)
Toggle(name, reg, command, mask, set) ==
    [name |-> name, reg |-> reg, command |-> command, mask |-> mask, set |-> set]

Toggles ==
    { Toggle("displayOn", "control", 8, 4, TRUE),
      Toggle("displayOff", "control", 8, 4, FALSE),
      Toggle("cursorOn", "control", 8, 2, TRUE),
      Toggle("cursorOff", "control", 8, 2, FALSE),
      Toggle("cursorBlinkOn", "control", 8, 1, TRUE),
      Toggle("cursorBlinkOff", "control", 8, 1, FALSE),
      Toggle("displayLeftToRight", "entry", 4, 2, TRUE),
      Toggle("displayRightToLeft", "entry", 4, 2, FALSE),
      Toggle("displayShiftOn", "entry", 4, 1, TRUE),
      Toggle("displayShiftOff", "entry", 4, 1, FALSE) }

Register(self, reg) ==
    IF reg = "control" THEN self.lcdDisplayControlCommand
    ELSE self.lcdEntryModeCommand

(* What the toggle called name does on the object self.                    *)
ToggleOf(name, self) ==
    CASE name = "displayOn" -> displayOn(self)
      [] name = "displayOff" -> displayOff(self)
      [] name = "cursorOn" -> cursorOn(self)
      [] name = "cursorOff" -> cursorOff(self)
      [] name = "cursorBlinkOn" -> cursorBlinkOn(self)
      [] name = "cursorBlinkOff" -> cursorBlinkOff(self)
      [] name = "displayLeftToRight" -> displayLeftToRight(self)
      [] name = "displayRightToLeft" -> displayRightToLeft(self)
      [] name = "displayShiftOn" -> displayShiftOn(self)
      [] name = "displayShiftOff" -> displayShiftOff(self)

(* C29: when every bus write of a display-control or entry-mode toggle     *)
(* failed, the call raised nothing and the shadow register holds the new   *)
(* value, the toggle's bit set or cleared; the next toggle of any bit of   *)
(* the same register then emits one command carrying the whole register,   *)
(* the undelivered change included, with its own bit set or cleared.       *)
C29_NoRollback ==
    \A tg \in Toggles :
        (Called(tg.name) /\ EveryWriteFailed) =>
            LET new == WithBit(Register(before, tg.reg), tg.mask, tg.set)
            IN  /\ raised = NoException
                /\ Register(display, tg.reg) = new
                /\ \A nx \in Toggles :
                       nx.reg = tg.reg =>
                           ToggleOf(nx.name, display).out =
                               sendCommand(display,
                                           BitOr(nx.command,
                                                 WithBit(new, nx.mask, nx.set)))

(* displayOff() was called while the display bit was set and every bus     *)
(* write failed: the register has the bit clear, and cursorOn() called     *)
(* next sends the register without the display bit.                        *)
C29_Witness ==
    /\ Called("displayOff")
    /\ EveryWriteFailed
    /\ HasBit(before.lcdDisplayControlCommand, 4)
    /\ ~HasBit(display.lcdDisplayControlCommand, 4)
    /\ cursorOn(display).out =
           sendCommand(display, 8 + WithBit(before.lcdDisplayControlCommand - 4,
                                            2, TRUE))

(* The writes of the last call that have the enable bit set, and the byte  *)
(* a 4-bit controller latches from them: bits 7..4 of the first are its    *)
(* upper half, bits 7..4 of the second its lower half.                     *)
Strobes == SelectSeq(Writes(bus), LAMBDA e : HasBit(e.value, 4))

Latched == (16 * (Strobes[1].value \div 16)) + (Strobes[2].value \div 16)

(* C30: for every byte v, sendCommand(v) and sendData(v) on a              *)
(* nibble-family handle make two writes with enable set, each of a value   *)
(* below 256, and the upper four bits of the first followed by the upper   *)
(* four bits of the second are v.                                          *)
C30_RoundTrip ==
    (IsLcd /\ lastCall.name \in {"sendCommand", "sendData"}) =>
        /\ Len(Strobes) = 2
        /\ \A i \in 1 .. 2 : Strobes[i].value < 256
        /\ Latched = lastCall.args[1]

(* sendData(0xA5) was called on a nibble-family handle: the two halves of  *)
(* the byte differ, and the first enable-set write carries 0xA, the        *)
(* second 0x5.                                                             *)
C30_Witness ==
    /\ IsLcd
    /\ Called("sendData")
    /\ lastCall.args = << 165 >>
    /\ Len(Strobes) = 2
    /\ Strobes[1].value \div 16 = 10
    /\ Strobes[2].value \div 16 = 5

(* The object the last call was made on.                                   *)
Callee == calls[Len(calls)]

(* C31: every bus write of a call on an object, its construction           *)
(* included, goes to the address the object was constructed with; the      *)
(* construction stores the family, address and row count it was given, no  *)
(* later call changes them, and no call changes any field of the other     *)
(* object on the bus.                                                      *)
C31_Isolated ==
    [][calls' # calls =>
           LET h == calls'[Len(calls')]
           IN  /\ \A i \in 1 .. Len(bus') :
                      IsWrite(bus'[i]) => bus'[i].addr = SharedAddress(h)
               /\ \A g \in Handles \ {h} : handles'[g] = handles[g]
               /\ handles'[h].i2cAddress = SharedAddress(h)
               /\ handles'[h].rows = SharedRows
               /\ IF handles[h] = NoDisplay
                  THEN handles'[h].displayType = lastCall'.text[1]
                  ELSE handles'[h].displayType = handles[h].displayType]_vars

(* Both objects were constructed, a call was made on the first, and then   *)
(* displayOff() was called on the second: it wrote to the second address   *)
(* only and cleared the display bit of the second object, while the first  *)
(* object still has it set.                                                *)
C31_Witness ==
    /\ Len(calls) = 4
    /\ calls[3] = 1
    /\ Callee = 2
    /\ Called("displayOff")
    /\ Writes(bus) # << >>
    /\ \A i \in 1 .. Len(bus) : IsWrite(bus[i]) => bus[i].addr = OLEDADDRESS
    /\ handles[2].lcdDisplayControlCommand = 0
    /\ handles[1].lcdDisplayControlCommand = 4
    /\ handles[1].i2cAddress = LCDADDRESS

(* C32: on a nibble-family object, every byte a call writes, the           *)
(* constructor included, has the read/write bit (value 2) clear, and when  *)
(* the call has returned the last byte it wrote has the enable bit         *)
(* (value 4) clear.                                                        *)
C32_WriteOnlyEnableLow ==
    (IsLcd /\ ~Idle) =>
        LET w == Writes(bus)
        IN  /\ \A k \in 1 .. Len(w) : ~HasBit(w[k].value, 2)
            /\ w # << >> => ~HasBit(w[Len(w)].value, 4)

(* write() was called on a nibble-family object: of its six bytes the      *)
(* second and the fifth have the enable bit set, the last has it clear,    *)
(* and none has the read/write bit set.                                    *)
C32_Witness ==
    /\ IsLcd
    /\ Called("write")
    /\ LET w == Writes(bus)
       IN  /\ Len(w) = 6
           /\ HasBit(w[2].value, 4)
           /\ HasBit(w[5].value, 4)
           /\ ~HasBit(w[6].value, 4)
           /\ \A k \in 1 .. 6 : ~HasBit(w[k].value, 2)

====
